---- MODULE Spec2Model ----
(***************************************************************************)
(* A model of the unit-search repository: the ingestion loader             *)
(* (backend/ingest), its validators, the feature matrix, the search        *)
(* service, the read routes (backend/api/routes) and the unit matcher of   *)
(* app.py.                                                                 *)
(*                                                                         *)
(* Representation.  A pandas DataFrame is a record                         *)
(*   [cols |-> the set of its column names, rows |-> the sequence of rows] *)
(* where a row is a function from the frame's columns to cells.  Cells of  *)
(* raw sheets are strings; a missing cell is the token NaN.  A table set   *)
(* (Dict[str, DataFrame]) is a function from the table names it holds to   *)
(* frames.  Python's sorted() on strings is code-point order, given here   *)
(* by the position of a string in LexOrder.                                *)
(***************************************************************************)
EXTENDS Integers, Sequences, FiniteSets, TLC

VARIABLES
    tables,                 \* the table set handed to the function under check
    units_df,               \* app.py: the prepared units handed to find_matches
    search_set,             \* app.py: the member ids selected for find_matches
    result,                 \* what the last call returned or raised
    cache,                  \* DataLoader.cache
    similarity_matrix,      \* DataLoader.similarity_matrix (Unset before the first rebuild)
    similarity_member_ids,  \* DataLoader.similarity_member_ids
    stored,                 \* the sqlite tables written by DataLoader._persist
    member_fts,             \* SearchService: rows of the FTS table member_fts
    member_meta,            \* SearchService.member_meta, in insertion order
    member_generations,     \* SearchService.member_generations
    succeeded,              \* history: some load_from_frames call has returned normally
    pc,                     \* position of each thread inside load_from_frames
    local_bundle,           \* the local variable bundle of each thread's load_from_frames
    last_etag,              \* SpreadsheetPoller.last_etag
    polls                   \* history: how many times SpreadsheetPoller.check has run

vars == <<tables, units_df, search_set, result, cache, similarity_matrix, similarity_member_ids, stored,
          member_fts, member_meta, member_generations, succeeded, pc, local_bundle,
          last_etag, polls>>

-----------------------------------------------------------------------------
(* Bounds of the model *)

\* how many rows of MemberPool a members table may hold
NumMembers == 2
\* how many rows of UnitPool a units table may hold
NumUnits == 2
\* how many required tables a table set may lack
MaxAbsent == 1
\* how many (table, column) pairs a table set may have dropped
MaxDropped == 2
\* the longest id column drawn for the reference checks
MaxRefs == 2
\* how many units a prepared units_df may hold
MaxMatchUnits == 2

\* how many times the poller checks in one behaviour
MaxChecks == 4

-----------------------------------------------------------------------------
(* Strings and their order *)

NaN == "NaN"
\* an Optional value is a sequence: None, or the one value it holds
None == << >>
Some(x) == << x >>
\* an attribute no assignment has created yet
Unset == << >>

\* every string the model sorts, in code-point order
LexOrder ==
    << "", "1", "2", "A", "B", "active", "alias", "alias_note", "branch",
       "canonical_name", "display_name", "generation", "is_primary", "m1", "m2", "m3",
       "m4", "m5", "member_aliases", "member_generations", "member_id", "members", "note",
       "retired", "status", "u1", "u2", "u3", "u4", "u5", "unit_id", "unit_members",
       "units", "units_aliases", "weight" >>

Range(s) == { s[i] : i \in DOMAIN s }

\* sorted(xs) for a collection of distinct strings given as a set
sorted(S) == SelectSeq(LexOrder, LAMBDA s : s \in S)

MemberIdPool == << "m1", "m2", "m3", "m4", "m5" >>
UnitIdPool == << "u1", "u2", "u3", "u4", "u5" >>

-----------------------------------------------------------------------------
(* Frames *)

Frame(cols, rows) == [cols |-> cols, rows |-> rows]

\* pd.DataFrame(columns=[...]): no rows
EmptyFrame(cols) == Frame(cols, << >>)

\* frame[column] as a sequence of cells
Column(frame, column) == [i \in DOMAIN frame.rows |-> frame.rows[i][column]]

\* frame.fillna(""): every missing cell becomes the empty string
fillna(frame) ==
    Frame(frame.cols,
          [i \in DOMAIN frame.rows |->
              [c \in frame.cols |->
                  IF frame.rows[i][c] = NaN THEN "" ELSE frame.rows[i][c]]])

\* the frame without the columns in drop
DropColumns(frame, drop) ==
    Frame(frame.cols \ drop,
          [i \in DOMAIN frame.rows |-> [c \in frame.cols \ drop |-> frame.rows[i][c]]])

-----------------------------------------------------------------------------
(* backend/ingest/loader.py: sheet names and required columns *)

REQUIRED_SHEETS == << "members", "member_generations", "units", "unit_members" >>
OPTIONAL_SHEETS == << "member_aliases", "units_aliases" >>
TableNames == Range(REQUIRED_SHEETS) \cup Range(OPTIONAL_SHEETS)

MembersColumns == << "member_id", "display_name", "alias", "branch", "status" >>
MemberGenerationsColumns == << "member_id", "generation", "is_primary" >>
UnitsColumns == << "unit_id", "canonical_name", "note" >>
UnitMembersColumns == << "unit_id", "member_id", "weight" >>
MemberAliasesColumns == << "member_id", "alias" >>
UnitsAliasesColumns == << "unit_id", "alias", "alias_note" >>

ColumnsOf(name) ==
    CASE name = "members" -> MembersColumns
      [] name = "member_generations" -> MemberGenerationsColumns
      [] name = "units" -> UnitsColumns
      [] name = "unit_members" -> UnitMembersColumns
      [] name = "member_aliases" -> MemberAliasesColumns
      [] name = "units_aliases" -> UnitsAliasesColumns

-----------------------------------------------------------------------------
(* Errors.  An exception is a record of its type and the parts of its      *)
(* message, in the order the f-string prints them.                         *)

NoError == [type |-> "ok", prefix |-> "", label |-> "", column |-> "",
            items |-> << >>, arrow |-> "", target |-> ""]

\* MissingSheetError(f"missing_required:{key}")
MissingSheetError(key) ==
    [type |-> "MissingSheetError", prefix |-> "missing_required", label |-> key,
     column |-> "", items |-> << >>, arrow |-> "", target |-> ""]

\* SchemaValidationError(f"missing_columns:{label}:{','.join(columns)}")
SchemaValidationError(label, columns) ==
    [type |-> "SchemaValidationError", prefix |-> "missing_columns", label |-> label,
     column |-> "", items |-> columns, arrow |-> "", target |-> ""]

\* IdConsistencyError(f"invalid_reference:{label}:{column}:{','.join(invalid)}->${target_label}")
IdConsistencyError(label, column, invalid, target_label) ==
    [type |-> "IdConsistencyError", prefix |-> "invalid_reference", label |-> label,
     column |-> column, items |-> invalid, arrow |-> "->$", target |-> target_label]

\* KeyError raised by pandas when a column is looked up that the frame lacks
KeyError(column) ==
    [type |-> "KeyError", prefix |-> "", label |-> "", column |-> column,
     items |-> << >>, arrow |-> "", target |-> ""]

\* ZeroDivisionError raised by a float division by zero
ZeroDivisionError ==
    [type |-> "ZeroDivisionError", prefix |-> "float division by zero", label |-> "",
     column |-> "", items |-> << >>, arrow |-> "", target |-> ""]

\* the first exception of a sequence of checks run in order
FirstError(checks) ==
    IF \E i \in DOMAIN checks : checks[i] # NoError
    THEN checks[CHOOSE i \in DOMAIN checks :
                    /\ checks[i] # NoError
                    /\ \A j \in 1..(i - 1) : checks[j] = NoError]
    ELSE NoError

-----------------------------------------------------------------------------
(* backend/ingest/validators.py *)

\* a variant that reports the first missing column only
ensure_required_columns_first_only(frame, required, label) ==
    LET missing == SelectSeq(required, LAMBDA col : col \notin frame.cols)
    IN  IF missing # << >>
        THEN SchemaValidationError(label, << Head(missing) >>)
        ELSE NoError

ensure_required_columns(frame, required, label) ==
    LET missing == SelectSeq(required, LAMBDA col : col \notin frame.cols)
    IN  IF missing # << >>
        THEN SchemaValidationError(label, sorted(Range(missing)))
        ELSE NoError

\* a variant that reports the invalid ids as met, neither sorted nor without duplicates
ensure_references_unsorted(frame, column, allowed_ids, label, target_label) ==
    IF column \notin frame.cols
    THEN SchemaValidationError(label, << column >>)
    ELSE LET cells == Column(fillna(frame), column)
             invalid == SelectSeq(cells, LAMBDA v : v \notin allowed_ids /\ v # "")
         IN  IF invalid # << >>
             THEN IdConsistencyError(label, column, invalid, target_label)
             ELSE NoError

ensure_references(frame, column, allowed_ids, label, target_label) ==
    IF column \notin frame.cols
    THEN SchemaValidationError(label, << column >>)
    ELSE LET cells == Column(fillna(frame), column)
             invalid == sorted({ v \in Range(cells) : v \notin allowed_ids /\ v # "" })
         IN  IF invalid # << >>
             THEN IdConsistencyError(label, column, invalid, target_label)
             ELSE NoError

-----------------------------------------------------------------------------
(* backend/ingest/loader.py: DataLoader._validate *)

\* the default weight of a missing or non-numeric cell
SentinelWeight == 9999

\* the numeric cells of the model: what float() and pd.to_numeric parse
NumericCells ==
    ("-2" :> (0 - 2)) @@ ("-1" :> (0 - 1)) @@ ("0" :> 0) @@ ("1" :> 1) @@ ("2" :> 2) @@ ("3" :> 3)

\* pd.to_numeric(cell, errors="coerce") followed by fillna(9999)
to_numeric_fillna(cell) ==
    IF cell \in DOMAIN NumericCells THEN NumericCells[cell] ELSE SentinelWeight

\* unit_members with its weight column made numeric
NormalizeWeights(unit_members) ==
    Frame(unit_members.cols,
          [i \in DOMAIN unit_members.rows |->
              [unit_members.rows[i] EXCEPT !["weight"] = to_numeric_fillna(@)]])

\* a variant whose default is a frame without columns
TablesGetBare(t, name) ==
    IF name \in DOMAIN t THEN t[name] ELSE EmptyFrame({})

\* tables.get(name, pd.DataFrame(columns=[...]).fillna(""))
TablesGet(t, name) ==
    IF name \in DOMAIN t THEN t[name] ELSE EmptyFrame(Range(ColumnsOf(name)))

DataBundle(members_f, member_generations_f, units_f, unit_members_f, member_aliases_f, units_aliases_f) ==
    [members |-> members_f, member_generations |-> member_generations_f, units |-> units_f,
     unit_members |-> unit_members_f, member_aliases |-> member_aliases_f,
     units_aliases |-> units_aliases_f]

\* the ids of a frame's id column that are not empty
IdSet(frame, column) == { v \in Range(Column(fillna(frame), column)) : v # "" }

\* _validate(tables): [error |-> the exception raised or NoError, bundle |-> the DataBundle]
_validate(t) ==
    LET missing_sheets == SelectSeq(REQUIRED_SHEETS, LAMBDA key : key \notin DOMAIN t)
    IN  IF missing_sheets # << >>
        THEN [error |-> MissingSheetError(Head(missing_sheets)), bundle |-> None]
        ELSE
        LET members_f == fillna(t["members"])
            member_generations_f == fillna(t["member_generations"])
            units_f == fillna(t["units"])
            unit_members_f == fillna(t["unit_members"])
            member_aliases_f == TablesGet(t, "member_aliases")
            units_aliases_f == TablesGet(t, "units_aliases")
            columns == FirstError(<<
                ensure_required_columns(members_f, MembersColumns, "members"),
                ensure_required_columns(member_generations_f, MemberGenerationsColumns,
                                        "member_generations"),
                ensure_required_columns(units_f, UnitsColumns, "units"),
                ensure_required_columns(unit_members_f, UnitMembersColumns, "unit_members") >>)
        IN  IF columns # NoError
            THEN [error |-> columns, bundle |-> None]
            ELSE
            LET member_ids == IdSet(members_f, "member_id")
                unit_ids == IdSet(units_f, "unit_id")
                references == FirstError(<<
                    ensure_references(member_generations_f, "member_id", member_ids,
                                      "member_generations", "members"),
                    ensure_references(unit_members_f, "member_id", member_ids,
                                      "unit_members", "members"),
                    ensure_references(unit_members_f, "unit_id", unit_ids,
                                      "unit_members", "units"),
                    ensure_references(member_aliases_f, "member_id", member_ids,
                                      "member_aliases", "members"),
                    ensure_references(units_aliases_f, "unit_id", unit_ids,
                                      "units_aliases", "units") >>)
            IN  IF references # NoError
                THEN [error |-> references, bundle |-> None]
                ELSE [error |-> NoError,
                      bundle |-> DataBundle(members_f, member_generations_f, units_f,
                                            NormalizeWeights(unit_members_f),
                                            member_aliases_f, units_aliases_f)]

-----------------------------------------------------------------------------
(* backend/features/matrix.py: build_member_unit_matrix *)

RECURSIVE Gcd(_, _)
Gcd(a, b) == IF b = 0 THEN a ELSE Gcd(b, a % b)

Abs(x) == IF x < 0 THEN 0 - x ELSE x

Lcm(a, b) == (a * b) \div Gcd(a, b)

RECURSIVE LcmOf(_)
LcmOf(S) == IF S = {} THEN 1 ELSE LET x == CHOOSE y \in S : TRUE IN Lcm(x, LcmOf(S \ {x}))

RECURSIVE GcdOf(_)
GcdOf(S) == IF S = {} THEN 0 ELSE LET x == CHOOSE y \in S : TRUE IN Gcd(x, GcdOf(S \ {x}))

\* float(row.get("weight", 1) or 1): a weight of 0 is falsy and becomes 1
EffectiveWeight(weight) == IF weight = 0 THEN 1 ELSE weight

\* the denominator d of the entry 1.0 / (1.0 + weight); d = 0 is a division by zero
Denominator(weight) == 1 + EffectiveWeight(weight)

\* mat / norms for one row.  A row holds the values 1/d of its edges (d # 0) and 0.0
\* elsewhere; divided by its L2 norm it is the unit vector in the direction of the
\* integers L/d, L the least common multiple of the |d|.  The row is kept as that
\* direction in lowest terms: the row itself is p / |p|, with 0 for a zero row.
NormalizeRow(dens) ==
    LET L == LcmOf({ Abs(dens[j]) : j \in DOMAIN dens } \ {0})
        a == [j \in DOMAIN dens |-> IF dens[j] = 0 THEN 0
                                    ELSE IF dens[j] < 0 THEN 0 - (L \div Abs(dens[j]))
                                    ELSE L \div dens[j]]
        g == GcdOf({ Abs(a[j]) : j \in DOMAIN a } \ {0})
    IN  [j \in DOMAIN dens |-> IF a[j] = 0 THEN 0
                               ELSE IF a[j] < 0 THEN 0 - (Abs(a[j]) \div g)
                               ELSE a[j] \div g]

\* the denominator the loop leaves in mat[mid, uid]: that of the last row of the edge
LastDenominator(rows, mid, uid) ==
    LET hits == { i \in DOMAIN rows : rows[i]["member_id"] = mid /\ rows[i]["unit_id"] = uid }
    IN  IF hits = {} THEN 0
        ELSE Denominator(rows[CHOOSE i \in hits : \A k \in hits : k <= i]["weight"])

\* [error, member_ids, unit_ids, mat] of build_member_unit_matrix(unit_members), and
\* before: the matrix as the loop leaves it, ahead of the division by the norms, each
\* entry by its denominator d (the entry is 1/d; d = 0 stands for the entry 0.0)
build_member_unit_matrix(unit_members_f) ==
    IF unit_members_f.rows = << >>
    THEN [error |-> NoError, member_ids |-> << >>, unit_ids |-> << >>, mat |-> << >>,
          before |-> << >>]
    ELSE
    LET rows == unit_members_f.rows
        member_ids == sorted({ rows[i]["member_id"] : i \in DOMAIN rows })
        unit_ids == sorted({ rows[i]["unit_id"] : i \in DOMAIN rows })
    IN  IF \E i \in DOMAIN rows : Denominator(rows[i]["weight"]) = 0
        THEN [error |-> ZeroDivisionError, member_ids |-> << >>, unit_ids |-> << >>,
              mat |-> << >>, before |-> << >>]
        ELSE [error |-> NoError, member_ids |-> member_ids, unit_ids |-> unit_ids,
              mat |-> [r \in DOMAIN member_ids |->
                         NormalizeRow([c \in DOMAIN unit_ids |->
                             LastDenominator(rows, member_ids[r], unit_ids[c])])],
              before |-> [r \in DOMAIN member_ids |->
                            [c \in DOMAIN unit_ids |->
                                LastDenominator(rows, member_ids[r], unit_ids[c])]]]

-----------------------------------------------------------------------------
(* backend/services/search.py: SearchService.reindex *)

\* TypeError raised by " ".join on a part that is no string
TypeError ==
    [type |-> "TypeError", prefix |-> "sequence item: expected str instance", label |-> "",
     column |-> "", items |-> << >>, arrow |-> "", target |-> ""]

\* alias_map.get(mid, []): the alias cells of the member's rows, in row order;
\* groupby drops the rows whose key is missing
AliasesOf(member_aliases_f, mid) ==
    Column(Frame(member_aliases_f.cols,
                 SelectSeq(member_aliases_f.rows, LAMBDA row : row["member_id"] = mid)),
           "alias")

\* gen_map.get(mid, set())
GenerationsOf(member_generations_f, mid) ==
    { member_generations_f.rows[i]["generation"] :
        i \in { k \in DOMAIN member_generations_f.rows :
                  member_generations_f.rows[k]["member_id"] = mid } }

\* dict[key] = value on a dict kept as the sequence of its values in insertion order
DictPut(dict, key, value) ==
    IF \E i \in DOMAIN dict : dict[i]["member_id"] = key
    THEN [i \in DOMAIN dict |-> IF dict[i]["member_id"] = key THEN value ELSE dict[i]]
    ELSE Append(dict, value)

\* the search index: the FTS rows, member_meta and member_generations
Index(fts, meta, generations) ==
    [member_fts |-> fts, member_meta |-> meta, member_generations |-> generations]

EmptyIndex == Index(<< >>, << >>, << >>)

\* the loop of reindex over the members rows from row n on: [error, index]
RECURSIVE IndexRows(_, _, _, _, _)
IndexRows(index, members_f, member_aliases_f, member_generations_f, n) ==
    IF n > Len(members_f.rows)
    THEN [error |-> NoError, index |-> index]
    ELSE
    LET row == members_f.rows[n]
        mid == row["member_id"]
        aliases == AliasesOf(member_aliases_f, mid)
        content_parts == << row["display_name"], row["alias"] >> \o aliases
        content == SelectSeq(content_parts, LAMBDA c : c # "")
        meta == [member_id |-> mid, display_name |-> row["display_name"],
                 alias |-> row["alias"], branch |-> row["branch"], status |-> row["status"]]
    IN  IF NaN \in Range(aliases)
        THEN [error |-> TypeError, index |-> index]
        ELSE IndexRows(
                Index(Append(index.member_fts, [member_id |-> mid, content |-> content]),
                      DictPut(index.member_meta, mid, meta),
                      (mid :> GenerationsOf(member_generations_f, mid))
                          @@ index.member_generations),
                members_f, member_aliases_f, member_generations_f, n + 1)

\* reindex(members, member_aliases, member_generations): [error, index]; the index
\* is cleared first, whatever follows
reindex(members_f, member_aliases_f, member_generations_f) ==
    IF "alias" \notin member_aliases_f.cols
    THEN [error |-> KeyError("alias"), index |-> EmptyIndex]
    ELSE IndexRows(EmptyIndex, members_f, member_aliases_f, member_generations_f, 1)

-----------------------------------------------------------------------------
(* backend/ingest/loader.py: DataLoader.load_from_frames, and the hook of main.py *)

\* the loader and the search service as one value
AppState(c, mat, ids, st, index) ==
    [cache |-> c, similarity_matrix |-> mat, similarity_member_ids |-> ids,
     stored |-> st, index |-> index]

Current ==
    AppState(cache, similarity_matrix, similarity_member_ids, stored,
             Index(member_fts, member_meta, member_generations))

\* _persist(bundle): every frame replaces the sqlite table of its name
_persist(app, bundle) == [app EXCEPT !.stored = Some(bundle)]

\* _recompute_similarity(bundle): [error, app]
_recompute_similarity(app, bundle) ==
    LET built == build_member_unit_matrix(bundle.unit_members)
    IN  IF built.error # NoError
        THEN [error |-> built.error, app |-> app]
        ELSE [error |-> NoError,
              app |-> [app EXCEPT !.similarity_matrix = Some(built.mat),
                                  !.similarity_member_ids = Some(built.member_ids)]]

\* the hook with a reindex that does not clear the index before it fills it
reload_hook_without_clear(app, bundle) ==
    LET indexed ==
           IF "alias" \notin bundle.member_aliases.cols
           THEN [error |-> KeyError("alias"), index |-> app.index]
           ELSE IndexRows(app.index, bundle.members, bundle.member_aliases,
                          bundle.member_generations, 1)
    IN  [error |-> indexed.error, app |-> [app EXCEPT !.index = indexed.index]]

\* the reload hook create_app registers: search_service.reindex(...): [error, app]
reload_hook(app, bundle) ==
    LET indexed == reindex(bundle.members, bundle.member_aliases, bundle.member_generations)
    IN  [error |-> indexed.error, app |-> [app EXCEPT !.index = indexed.index]]

\* a load that drops the current bundle when the validation refuses the tables
load_from_frames_dropping_on_failure(app, t) ==
    LET validated == _validate(t)
    IN  IF validated.error # NoError
        THEN [error |-> validated.error, app |-> [app EXCEPT !.cache = None],
              bundle |-> None]
        ELSE
        LET bundle == validated.bundle
            cached == [_persist(app, bundle) EXCEPT !.cache = Some(bundle)]
            recomputed == _recompute_similarity(cached, bundle)
            hooked == reload_hook(recomputed.app, bundle)
        IN  IF recomputed.error # NoError
            THEN [error |-> recomputed.error, app |-> recomputed.app, bundle |-> None]
            ELSE IF hooked.error # NoError
            THEN [error |-> hooked.error, app |-> hooked.app, bundle |-> None]
            ELSE [error |-> NoError, app |-> hooked.app, bundle |-> Some(bundle)]

\* load_from_frames(tables) from the state app: [error, app, bundle]
load_from_frames(app, t) ==
    LET validated == _validate(t)
    IN  IF validated.error # NoError
        THEN [error |-> validated.error, app |-> app, bundle |-> None]
        ELSE
        LET bundle == validated.bundle
            persisted == _persist(app, bundle)
            cached == [persisted EXCEPT !.cache = Some(bundle)]
            recomputed == _recompute_similarity(cached, bundle)
        IN  IF recomputed.error # NoError
            THEN [error |-> recomputed.error, app |-> recomputed.app, bundle |-> None]
            ELSE
            LET hooked == reload_hook(recomputed.app, bundle)
            IN  IF hooked.error # NoError
                THEN [error |-> hooked.error, app |-> hooked.app, bundle |-> None]
                ELSE [error |-> NoError, app |-> hooked.app, bundle |-> Some(bundle)]

-----------------------------------------------------------------------------
(* backend/features/similarity.py: cosine_similarity, top_similar *)

RECURSIVE SumTo(_, _)
SumTo(f, n) == IF n = 0 THEN 0 ELSE f[n] + SumTo(f, n - 1)

\* the integer dot product of two row directions
Dot(p, q) == SumTo([j \in DOMAIN p |-> p[j] * q[j]], Len(p))

\* the dot product of the normalized rows p/|p| and q/|q|: the real number
\* sign * sqrt(num / den), num / den in lowest terms
Score(p, q) ==
    LET d == Dot(p, q)
        n == Dot(p, p) * Dot(q, q)
        g == Gcd(d * d, n)
    IN  IF d = 0 THEN [sign |-> 0, num |-> 0, den |-> 1]
        ELSE [sign |-> IF d < 0 THEN 0 - 1 ELSE 1, num |-> (d * d) \div g, den |-> n \div g]

ScoreGreater(a, b) ==
    IF a.sign # b.sign THEN a.sign > b.sign
    ELSE IF a.sign = 1 THEN a.num * b.den > b.num * a.den
    ELSE IF a.sign = 0 THEN FALSE
    ELSE a.num * b.den < b.num * a.den

\* scores = matrix @ matrix[target_index]
cosine_similarity(matrix, target_index) ==
    [j \in DOMAIN matrix |-> Score(matrix[j], matrix[target_index])]

\* a sort that puts an item ahead of the items it ties with
RECURSIVE InsertBeforeTies(_, _)
InsertBeforeTies(sorted_items, item) ==
    IF sorted_items = << >> THEN << item >>
    ELSE IF ~ScoreGreater(Head(sorted_items).score, item.score)
         THEN << item >> \o sorted_items
         ELSE << Head(sorted_items) >> \o InsertBeforeTies(Tail(sorted_items), item)

\* list.sort(key=score, reverse=True): stable, equal scores keep their order;
\* an item goes behind the items that do not score less
RECURSIVE InsertByScore(_, _)
InsertByScore(sorted_items, item) ==
    IF sorted_items = << >> THEN << item >>
    ELSE IF ScoreGreater(item.score, Head(sorted_items).score)
         THEN << item >> \o sorted_items
         ELSE << Head(sorted_items) >> \o InsertByScore(Tail(sorted_items), item)

RECURSIVE SortByScoreFrom(_, _)
SortByScoreFrom(items, n) ==
    IF n = 0 THEN << >> ELSE InsertByScore(SortByScoreFrom(items, n - 1), items[n])

SortByScore(items) == SortByScoreFrom(items, Len(items))

\* raised by matrix[target_index] on a row the matrix does not have
IndexError ==
    [type |-> "IndexError", prefix |-> "index out of bounds", label |-> "", column |-> "",
     items |-> << >>, arrow |-> "", target |-> ""]

\* a variant that ranks the queried member with the others
top_similar_with_self(member_id, member_ids, matrix, top) ==
    IF member_id \notin Range(member_ids) \/ matrix = << >>
    THEN [error |-> NoError, items |-> << >>]
    ELSE
    LET idx == CHOOSE i \in DOMAIN member_ids : member_ids[i] = member_id
        scores == cosine_similarity(matrix, idx)
        zipped == 1..(IF Len(member_ids) < Len(scores) THEN Len(member_ids) ELSE Len(scores))
        pairs == [j \in zipped |-> [member_id |-> member_ids[j], score |-> scores[j]]]
        ranked == SortByScore(pairs)
    IN  IF idx > Len(matrix)
        THEN [error |-> IndexError, items |-> << >>]
        ELSE [error |-> NoError,
              items |-> SubSeq(ranked, 1, IF top < Len(ranked) THEN top ELSE Len(ranked))]

\* a variant without the guard: looking up a member that is no row, or a row of an
\* empty matrix, raises
top_similar_unguarded(member_id, member_ids, matrix, top) ==
    IF member_id \notin Range(member_ids) \/ matrix = << >>
    THEN [error |-> IndexError, items |-> << >>]
    ELSE
    LET idx == CHOOSE i \in DOMAIN member_ids : member_ids[i] = member_id
        scores == cosine_similarity(matrix, idx)
        zipped == 1..(IF Len(member_ids) < Len(scores) THEN Len(member_ids) ELSE Len(scores))
        pairs == [j \in zipped |-> [member_id |-> member_ids[j], score |-> scores[j]]]
        results == SelectSeq(pairs, LAMBDA item : item.member_id # member_id)
        ranked == SortByScore(results)
    IN  IF idx > Len(matrix)
        THEN [error |-> IndexError, items |-> << >>]
        ELSE [error |-> NoError,
              items |-> SubSeq(ranked, 1, IF top < Len(ranked) THEN top ELSE Len(ranked))]

\* [error, items] of top_similar; zip stops at the shorter of member_ids and scores
top_similar(member_id, member_ids, matrix, top) ==
    IF member_id \notin Range(member_ids) \/ matrix = << >>
    THEN [error |-> NoError, items |-> << >>]
    ELSE
    LET idx == CHOOSE i \in DOMAIN member_ids : member_ids[i] = member_id
        scores == cosine_similarity(matrix, idx)
        zipped == 1..(IF Len(member_ids) < Len(scores) THEN Len(member_ids) ELSE Len(scores))
        pairs == [j \in zipped |-> [member_id |-> member_ids[j], score |-> scores[j]]]
        results == SelectSeq(pairs, LAMBDA item : item.member_id # member_id)
        ranked == SortByScore(results)
    IN  IF idx > Len(matrix)
        THEN [error |-> IndexError, items |-> << >>]
        ELSE [error |-> NoError,
              items |-> SubSeq(ranked, 1, IF top < Len(ranked) THEN top ELSE Len(ranked))]

-----------------------------------------------------------------------------
(* backend/api/routes: the three read handlers *)

HTTPException(status_code, detail) ==
    [type |-> "HTTPException", prefix |-> detail, label |-> status_code, column |-> "",
     items |-> << >>, arrow |-> "", target |-> ""]

data_not_loaded == HTTPException("503", "data_not_loaded")

\* DataFrame.sort_values(by="weight", ascending=True) on frames of fewer than 16 rows,
\* where the sort is an insertion sort and rows of equal weight keep their order
RECURSIVE InsertByWeight(_, _)
InsertByWeight(sorted_rows, row) ==
    IF sorted_rows = << >> THEN << row >>
    ELSE IF row["weight"] < Head(sorted_rows)["weight"]
         THEN << row >> \o sorted_rows
         ELSE << Head(sorted_rows) >> \o InsertByWeight(Tail(sorted_rows), row)

RECURSIVE SortByWeightFrom(_, _)
SortByWeightFrom(rows, n) ==
    IF n = 0 THEN << >> ELSE InsertByWeight(SortByWeightFrom(rows, n - 1), rows[n])

SortByWeight(rows) == SortByWeightFrom(rows, Len(rows))

\* a variant that lists the members in the order of unit_members
get_unit_unsorted(app, unit_id) ==
    IF app.cache = None
    THEN [error |-> data_not_loaded, body |-> << >>]
    ELSE
    LET bundle == app.cache[1]
        unit_row == SelectSeq(bundle.units.rows, LAMBDA row : row["unit_id"] = unit_id)
        members == SelectSeq(bundle.unit_members.rows, LAMBDA row : row["unit_id"] = unit_id)
        member_list == [i \in DOMAIN members |->
                          [member_id |-> members[i]["member_id"],
                           weight |-> members[i]["weight"]]]
    IN  IF unit_row = << >>
        THEN [error |-> HTTPException("404", "unit_not_found"), body |-> << >>]
        ELSE [error |-> NoError, body |-> << ("members" :> member_list) @@ unit_row[1] >>]

\* GET /units/{unit_id}: [error, body]
get_unit(app, unit_id) ==
    IF app.cache = None
    THEN [error |-> data_not_loaded, body |-> << >>]
    ELSE
    LET bundle == app.cache[1]
        unit_row == SelectSeq(bundle.units.rows, LAMBDA row : row["unit_id"] = unit_id)
        members == SortByWeight(SelectSeq(bundle.unit_members.rows,
                                          LAMBDA row : row["unit_id"] = unit_id))
        member_list == [i \in DOMAIN members |->
                          [member_id |-> members[i]["member_id"],
                           weight |-> members[i]["weight"]]]
    IN  IF unit_row = << >>
        THEN [error |-> HTTPException("404", "unit_not_found"), body |-> << >>]
        ELSE [error |-> NoError, body |-> << ("members" :> member_list) @@ unit_row[1] >>]

\* GET /similarity: [error, body]
similarity(app, member_id, top) ==
    IF app.cache = None
    THEN [error |-> data_not_loaded, body |-> << >>]
    ELSE IF app.similarity_matrix = Unset
    THEN [error |-> HTTPException("500", "similarity_not_ready"), body |-> << >>]
    ELSE
    LET \* getattr(loader, "similarity_member_ids", [])
        member_ids == IF app.similarity_member_ids = Unset
                      THEN << >> ELSE app.similarity_member_ids[1]
        results == top_similar(member_id, member_ids, app.similarity_matrix[1], top)
    IN  IF results.error # NoError
        THEN [error |-> results.error, body |-> << >>]
        ELSE [error |-> NoError, body |-> << [items |-> results.items] >>]

\* limit: int = Field(default=20, ge=1, le=100)
DefaultLimit == 20

\* MemberSearchQuery(keyword=..., branch=..., status=..., generation=..., limit=..., offset=...);
\* keyword is None or Some(string)
MemberSearchQueryOf(keyword, branch, status, generation, limit, offset) ==
    [keyword |-> keyword, branch |-> branch, status |-> status, generation |-> generation,
     limit |-> limit, offset |-> offset]

\* a MemberSearchQuery without keyword, with the default limit and offset
MemberSearchQuery(branch, status, generation) ==
    MemberSearchQueryOf(None, branch, status, generation, DefaultLimit, 0)

\* SearchService._apply_filters(member_ids, query)
_apply_filters(index, member_ids, query) ==
    LET meta_of(mid) ==
            index.member_meta[CHOOSE i \in DOMAIN index.member_meta :
                                 index.member_meta[i]["member_id"] = mid]
        generations_of(mid) ==
            IF mid \in DOMAIN index.member_generations
            THEN index.member_generations[mid] ELSE {}
        keep(mid) ==
            /\ \E i \in DOMAIN index.member_meta : index.member_meta[i]["member_id"] = mid
            /\ query.branch # {} => meta_of(mid)["branch"] \in query.branch
            /\ query.status # {} => meta_of(mid)["status"] \in query.status
            /\ query.generation # {} => generations_of(mid) \cap query.generation # {}
        kept == SelectSeq(member_ids, keep)
    IN  [i \in DOMAIN kept |-> meta_of(kept[i])]

\* the tokens the FTS5 tokenizer (unicode61) makes of the strings of the model that are
\* not one lower-case word already: letters are folded, a hyphen separates
FtsTokens ==
    ("Alice" :> << "alice" >>) @@ ("Bob" :> << "bob" >>) @@ ("Carol" :> << "carol" >>)
    @@ ("Dave" :> << "dave" >>) @@ ("Al" :> << "al" >>) @@ ("Bobby" :> << "bobby" >>)
    @@ ("Sea" :> << "sea" >>) @@ ("Star" :> << "star" >>)
    @@ ("A-chan" :> << "a", "chan" >>) @@ ("" :> << >>)

tokenize(text) == IF text \in DOMAIN FtsTokens THEN FtsTokens[text] ELSE << text >>

RECURSIVE Concat(_)
Concat(seqs) == IF seqs = << >> THEN << >> ELSE Head(seqs) \o Concat(Tail(seqs))

\* the tokens of a row of member_fts: those of member_id, then those of content
DocTokens(row) ==
    tokenize(row.member_id) \o Concat([i \in DOMAIN row.content |-> tokenize(row.content[i])])

\* sqlite3.OperationalError raised by MATCH on a keyword that is no FTS5 query
OperationalError(message, name) ==
    [type |-> "OperationalError", prefix |-> message, label |-> "", column |-> name,
     items |-> << >>, arrow |-> "", target |-> ""]

\* the keyword read as an FTS5 query: one word is a term; in word-word the hyphen
\* makes the second word a column name, which member_fts does not have
fts_query(keyword) ==
    LET words == tokenize(keyword)
    IN  IF Len(words) = 1
        THEN [error |-> NoError, term |-> words[1]]
        ELSE [error |-> OperationalError("no such column", words[Len(words)]), term |-> ""]

\* bm25 of row a is below that of row b for a one-term query: with tf the hits and dl
\* the tokens of a row, total the tokens and n the rows of the table, the order of
\* tf / (tf + k1 * (1 - b + b * dl * n / total)) with b = 0.75
RankedBefore(a, b, total, n) ==
    a.tf * (total + 3 * n * b.dl) > b.tf * (total + 3 * n * a.dl)

\* ORDER BY rank: rows of equal rank stay in rowid order
RECURSIVE InsertByRank(_, _, _, _)
InsertByRank(ranked, row, total, n) ==
    IF ranked = << >> THEN << row >>
    ELSE IF RankedBefore(row, Head(ranked), total, n)
         THEN << row >> \o ranked
         ELSE << Head(ranked) >> \o InsertByRank(Tail(ranked), row, total, n)

RECURSIVE SortByRankFrom(_, _, _, _)
SortByRankFrom(rows, k, total, n) ==
    IF k = 0 THEN << >>
    ELSE InsertByRank(SortByRankFrom(rows, k - 1, total, n), rows[k], total, n)

\* SELECT member_id ... WHERE member_fts MATCH term ORDER BY rank, before LIMIT
fts_ranked(member_fts_rows, term) ==
    LET docs == [i \in DOMAIN member_fts_rows |->
                    [member_id |-> member_fts_rows[i].member_id,
                     tf |-> Cardinality({ k \in DOMAIN DocTokens(member_fts_rows[i]) :
                                            DocTokens(member_fts_rows[i])[k] = term }),
                     dl |-> Len(DocTokens(member_fts_rows[i]))]]
        total == SumTo([i \in DOMAIN docs |-> docs[i].dl], Len(docs))
        matches == SelectSeq(docs, LAMBDA doc : doc.tf > 0)
        ranked == SortByRankFrom(matches, Len(matches), total, Len(docs))
    IN  [i \in DOMAIN ranked |-> ranked[i].member_id]

\* LIMIT limit OFFSET offset
LimitOffset(rows, limit, offset) ==
    SubSeq(rows, offset + 1, IF offset + limit < Len(rows) THEN offset + limit ELSE Len(rows))

\* query.keyword is given: not None and not the empty string
HasKeyword(query) == query.keyword # None /\ query.keyword # Some("")

\* SearchService.search(query): [error, items].  With a keyword the SELECT ranks the
\* matching rows and cuts them to LIMIT/OFFSET; without one its rows are replaced by the
\* keys of member_meta.  The facet filter runs on what is left.
search(index, query) ==
    IF HasKeyword(query)
    THEN LET parsed == fts_query(query.keyword[1])
         IN  IF parsed.error # NoError
             THEN [error |-> parsed.error, items |-> << >>]
             ELSE [error |-> NoError,
                   items |-> _apply_filters(
                                index,
                                LimitOffset(fts_ranked(index.member_fts, parsed.term),
                                            query.limit, query.offset),
                                query)]
    ELSE [error |-> NoError,
          items |-> _apply_filters(
                       index,
                       [i \in DOMAIN index.member_meta |-> index.member_meta[i]["member_id"]],
                       query)]

\* GET /members/search: [error, body]
search_members(app, query) ==
    IF app.cache = None
    THEN [error |-> data_not_loaded, body |-> << >>]
    ELSE LET found == search(app.index, query)
         IN  IF found.error # NoError
             THEN [error |-> found.error, body |-> << >>]
             ELSE [error |-> NoError, body |-> << [items |-> found.items] >>]

-----------------------------------------------------------------------------
(* Table sets the model draws its inputs from *)

MemberPool ==
    << [member_id |-> "m1", display_name |-> "Alice", alias |-> "Al", branch |-> "A",
        status |-> "active"],
       [member_id |-> "m2", display_name |-> "Bob", alias |-> "Bobby", branch |-> "B",
        status |-> "retired"],
       [member_id |-> "m3", display_name |-> "Carol", alias |-> "", branch |-> "A",
        status |-> "active"],
       [member_id |-> "m4", display_name |-> "Dave", alias |-> "", branch |-> "B",
        status |-> "active"] >>

UnitPool ==
    << [unit_id |-> "u1", canonical_name |-> "Unit One", note |-> ""],
       [unit_id |-> "u2", canonical_name |-> "Unit Two", note |-> ""],
       [unit_id |-> "u3", canonical_name |-> "", note |-> ""],
       [unit_id |-> "u4", canonical_name |-> "", note |-> ""] >>

\* an id cell named by a number: 0 the empty cell, -1 the missing cell, i > 0 the pool's i-th id
IdCell(pool, i) == IF i = 0 THEN "" ELSE IF i < 0 THEN NaN ELSE pool[i]

Prefix(seq, n) == SubSeq(seq, 1, n)

\* the sequences over S of length at most n
SeqsUpTo(S, n) == UNION { [1..k -> S] : k \in 0..n }

\* a table set with every table, every column and no dangling id
BaseTables ==
    [name \in TableNames |->
        CASE name = "members" ->
                Frame(Range(MembersColumns), Prefix(MemberPool, NumMembers))
          [] name = "member_generations" ->
                Frame(Range(MemberGenerationsColumns),
                      [i \in 1..NumMembers |->
                          [member_id |-> MemberIdPool[i], generation |-> "1",
                           is_primary |-> "TRUE"]])
          [] name = "units" ->
                Frame(Range(UnitsColumns), Prefix(UnitPool, NumUnits))
          [] name = "unit_members" ->
                Frame(Range(UnitMembersColumns),
                      [i \in 1..NumMembers |->
                          [unit_id |-> "u1", member_id |-> MemberIdPool[i], weight |-> "1"]])
          [] name = "member_aliases" ->
                Frame(Range(MemberAliasesColumns),
                      << [member_id |-> "m1", alias |-> "A-chan"] >>)
          [] name = "units_aliases" ->
                Frame(Range(UnitsAliasesColumns),
                      << [unit_id |-> "u1", alias |-> "One", alias_note |-> ""] >>)]

\* the five reference checks of _validate, as (table, column) pairs in the order they run
ReferenceChecks ==
    << << "member_generations", "member_id" >>, << "unit_members", "member_id" >>,
       << "unit_members", "unit_id" >>, << "member_aliases", "member_id" >>,
       << "units_aliases", "unit_id" >> >>

\* the id cells a drawn id column may hold: missing, empty, a valid id, two dangling ids
RefChoices(n) == { 0 - 1, 0, 1, n + 1, n + 2 }

\* the frame of table `name` whose id columns named in `pattern` hold the ids `ids`
RefFrame(name, pattern, ids) ==
    LET m(i) == IF << name, "member_id" >> \in pattern
                THEN IdCell(MemberIdPool, ids[i]) ELSE "m1"
        u(i) == IF << name, "unit_id" >> \in pattern
                THEN IdCell(UnitIdPool, ids[i]) ELSE "u1"
    IN  IF \A c \in pattern : c[1] # name
        THEN BaseTables[name]
        ELSE Frame(Range(ColumnsOf(name)),
                   [i \in DOMAIN ids |->
                      CASE name = "member_generations" ->
                              [member_id |-> m(i), generation |-> "1", is_primary |-> "TRUE"]
                        [] name = "unit_members" ->
                              [unit_id |-> u(i), member_id |-> m(i), weight |-> "1"]
                        [] name = "member_aliases" ->
                              [member_id |-> m(i), alias |-> "A-chan"]
                        [] name = "units_aliases" ->
                              [unit_id |-> u(i), alias |-> "One", alias_note |-> ""]])

\* the base table set without the tables in `absent` and the (table, column) pairs in
\* `dropped`, its id columns in `pattern` holding `ids`
MakeTables(absent, dropped, pattern, ids) ==
    [name \in TableNames \ absent |->
        DropColumns(RefFrame(name, pattern, ids), { d[2] : d \in { e \in dropped : e[1] = name } })]

ColumnPairs == { << name, c >> : name \in TableNames, c \in Range(LexOrder) } \cap
               UNION { { << name, c >> : c \in Range(ColumnsOf(name)) } : name \in TableNames }

SubsetsUpTo(S, n) == { X \in SUBSET S : Cardinality(X) <= n }

\* table sets for the table and column checks: tables absent, columns dropped
SchemaFamily(max_absent, max_dropped) ==
    { MakeTables(absent, dropped, {}, << >>) :
        absent \in SubsetsUpTo(TableNames, max_absent),
        dropped \in SubsetsUpTo(ColumnPairs, max_dropped) }

\* what may be gone from a table set of the reference checks: nothing, an optional table,
\* or one id or weight column
ReferenceGone ==
    { << {}, {} >> } \cup { << {name}, {} >> : name \in Range(OPTIONAL_SHEETS) }
    \cup { << {}, {d} >> : d \in { e \in ColumnPairs : e[2] \in {"member_id", "unit_id", "weight"} } }

\* table sets for the reference checks: the id columns of at most two checks drawn
ReferenceFamily(max_refs) ==
    { MakeTables(gone[1], gone[2], pattern, ids) :
        gone \in ReferenceGone,
        pattern \in SubsetsUpTo(Range(ReferenceChecks), 2),
        ids \in SeqsUpTo(RefChoices(NumMembers), max_refs) }

-----------------------------------------------------------------------------
(* Calls and their results *)

\* the threads calls are made from; the first is the one create_app runs in
Threads == {"main", "worker"}

\* a call: its name, its arguments where a claim speaks of them, what it raised and
\* what it returned
NoCall == [op |-> "none", args |-> << >>, error |-> NoError, body |-> << >>]
CallWith(op, args, error, body) == [op |-> op, args |-> args, error |-> error, body |-> body]
Call(op, error, body) == CallWith(op, << >>, error, body)

-----------------------------------------------------------------------------
(* SpecValidate: DataLoader._validate applied to a drawn table set *)

InitApp ==
    /\ result = NoCall
    /\ cache = None
    /\ similarity_matrix = Unset
    /\ similarity_member_ids = Unset
    /\ stored = << >>
    /\ member_fts = << >>
    /\ member_meta = << >>
    /\ member_generations = << >>
    /\ succeeded = FALSE
    /\ pc = [th \in Threads |-> "idle"]
    /\ local_bundle = [th \in Threads |-> None]
    /\ last_etag = None
    /\ polls = 0

InitValidate ==
    /\ tables \in SchemaFamily(MaxAbsent, MaxDropped) \cup ReferenceFamily(MaxRefs)
    /\ units_df = << >>
    /\ search_set = {}
    /\ InitApp

Validate ==
    /\ result = NoCall
    /\ result' = Call("_validate", _validate(tables).error, _validate(tables).bundle)
    /\ UNCHANGED <<tables, units_df, search_set, last_etag, polls, cache, similarity_matrix,
                   similarity_member_ids, stored, member_fts, member_meta,
                   member_generations, succeeded, pc, local_bundle>>

NextValidate == Validate

SpecValidate == InitValidate /\ [][NextValidate]_vars

-----------------------------------------------------------------------------
(* What the validation claims speak of, stated on the drawn table set *)

LexRank(s) == CHOOSE i \in DOMAIN LexOrder : LexOrder[i] = s

\* strictly increasing in code-point order: sorted, without duplicates
StrictlySorted(seq) ==
    \A i, j \in DOMAIN seq : i < j => LexRank(seq[i]) < LexRank(seq[j])

AllRequiredPresent == Range(REQUIRED_SHEETS) \subseteq DOMAIN tables

MissingColumns(name) == Range(ColumnsOf(name)) \ tables[name].cols

Deficient(name) == name \in DOMAIN tables /\ MissingColumns(name) # {}

\* the error is a SchemaError naming table `name` and all its missing columns, sorted
NamesMissingColumns(e, name) ==
    /\ e.type = "SchemaValidationError"
    /\ e.prefix = "missing_columns"
    /\ e.label = name
    /\ Range(e.items) = MissingColumns(name)
    /\ StrictlySorted(e.items)

\* the non-empty ids of a column of the drawn table set
CellIds(name, column) ==
    IF name \in DOMAIN tables /\ column \in tables[name].cols
    THEN { tables[name].rows[i][column] : i \in DOMAIN tables[name].rows } \ {"", NaN}
    ELSE {}

TargetOf(column) == IF column = "member_id" THEN "members" ELSE "units"

\* the ids of a reference column that its target table does not hold
InvalidIds(check) == CellIds(check[1], check[2]) \ CellIds(TargetOf(check[2]), check[2])

Offending(check) == InvalidIds(check) # {}

\* the error is an IdConsistencyError naming the check's table and column, all its
\* invalid ids sorted without duplicates, and the table they should reference
NamesInvalidIds(e, check) ==
    /\ e.type = "IdConsistencyError"
    /\ e.prefix = "invalid_reference"
    /\ e.label = check[1]
    /\ e.column = check[2]
    /\ Range(e.items) = InvalidIds(check)
    /\ StrictlySorted(e.items)
    /\ e.target = TargetOf(check[2])

\* the table set passes the table and column checks that run before the reference checks
PassesColumnChecks ==
    /\ AllRequiredPresent
    /\ \A name \in Range(REQUIRED_SHEETS) : ~Deficient(name)
    /\ "member_aliases" \in DOMAIN tables => "member_id" \in tables["member_aliases"].cols
    /\ "units_aliases" \in DOMAIN tables => "unit_id" \in tables["units_aliases"].cols

Validated == result.op = "_validate"

(* C4, as stated: every required table that lacks required columns is named by the
   SchemaError, with all of its missing columns, sorted. *)
C4_EveryDeficientTableNamed ==
    (Validated /\ AllRequiredPresent) =>
        \A name \in Range(REQUIRED_SHEETS) :
            Deficient(name) => NamesMissingColumns(result.error, name)

(* C4, amended: when every required table is supplied and some lack required columns,
   loading fails with a SchemaError that names the first such table in the order
   members, member_generations, units, unit_members, and all of that table's missing
   columns, sorted. *)
C4_FirstDeficientTableNamed ==
    (Validated /\ AllRequiredPresent) =>
        \A i \in DOMAIN REQUIRED_SHEETS :
            (/\ Deficient(REQUIRED_SHEETS[i])
             /\ \A j \in 1..(i - 1) : ~Deficient(REQUIRED_SHEETS[j]))
            => NamesMissingColumns(result.error, REQUIRED_SHEETS[i])

\* unit_members has lost member_id and weight, and the error names both, sorted
C4_Witness ==
    /\ Validated /\ AllRequiredPresent
    /\ MissingColumns("unit_members") = {"member_id", "weight"}
    /\ result.error.label = "unit_members"
    /\ result.error.items = << "member_id", "weight" >>

(* C5: a table set that lacks a required table fails with a SchemaError identifying
   the missing table. *)
C5_MissingTableIsSchemaError ==
    (Validated /\ ~AllRequiredPresent) =>
        /\ result.error.type = "SchemaValidationError"
        /\ result.error.label \in Range(REQUIRED_SHEETS) \ DOMAIN tables

(* C6, as stated: a dangling member_id or unit_id makes loading fail with an
   IdConsistencyError naming an offending table and column, the complete sorted set of
   that column's invalid ids and the referenced table; without one, no
   IdConsistencyError is raised. *)
C6_DanglingIdIsIdConsistencyError ==
    (/\ Validated /\ AllRequiredPresent
     /\ "member_id" \in tables["members"].cols /\ "unit_id" \in tables["units"].cols) =>
        IF \E check \in Range(ReferenceChecks) : Offending(check)
        THEN \E check \in Range(ReferenceChecks) :
                Offending(check) /\ NamesInvalidIds(result.error, check)
        ELSE result.error.type # "IdConsistencyError"

(* C6, amended: on a table set that passes the table and column checks, a dangling id
   makes loading fail with an IdConsistencyError naming the first offending table and
   column in the order the checks run, the complete sorted set of that column's
   invalid ids without duplicates and the referenced table; without a dangling id no
   IdConsistencyError is raised. *)
C6_FirstOffendingColumnNamed ==
    (Validated /\ PassesColumnChecks) =>
        IF \E check \in Range(ReferenceChecks) : Offending(check)
        THEN \A i \in DOMAIN ReferenceChecks :
                (/\ Offending(ReferenceChecks[i])
                 /\ \A j \in 1..(i - 1) : ~Offending(ReferenceChecks[j]))
                => NamesInvalidIds(result.error, ReferenceChecks[i])
        ELSE result.error.type # "IdConsistencyError"

\* unit_members holds two dangling member ids, out of order
C6_Witness ==
    /\ Validated /\ PassesColumnChecks
    /\ \E i, j \in DOMAIN tables["unit_members"].rows :
          /\ i < j
          /\ tables["unit_members"].rows[i]["member_id"] = MemberIdPool[NumMembers + 2]
          /\ tables["unit_members"].rows[j]["member_id"] = MemberIdPool[NumMembers + 1]
    /\ result.error.type = "IdConsistencyError"
    /\ result.error.label = "unit_members"
    /\ result.error.items = << MemberIdPool[NumMembers + 1], MemberIdPool[NumMembers + 2] >>

-----------------------------------------------------------------------------
(* app.py: jaccard and find_matches *)

\* the float n / d, kept as the fraction in lowest terms; d > 0
Ratio(n, d) == << n \div Gcd(n, d), d \div Gcd(n, d) >>

\* the float 0.0
Zero == Ratio(0, 1)

\* a > b and a = b on floats kept as fractions
RatioGreater(a, b) == a[1] * b[2] > b[1] * a[2]

\* a variant that divides by the size of the first set
jaccard_over_first(a, b) ==
    IF a = {} /\ b = {}
    THEN Zero
    ELSE LET inter == Cardinality(a \cap b)
             union == Cardinality(a)
         IN  IF union > 0 THEN Ratio(inter, union) ELSE Zero

jaccard(a, b) ==
    IF a = {} /\ b = {}
    THEN Zero
    ELSE LET inter == Cardinality(a \cap b)
             union == Cardinality(a \cup b)
         IN  IF union > 0 THEN Ratio(inter, union) ELSE Zero

\* the row find_matches appends for a unit
\* row.get(name, default)
Get(row, name, default) == IF name \in DOMAIN row THEN row[name] ELSE default

MatchRow(row, score, intersection) ==
    [UnitName |-> Get(row, "UnitName", ""),
     UnitId |-> Get(row, "UnitId", ""),
     Members |-> Get(row, "MemberDisplay", << >>),
     Note |-> Get(row, "Note", ""),
     Aliases |-> Get(row, "Aliases", << >>),
     AliasNotes |-> Get(row, "AliasNotes", << >>),
     Branches |-> Get(row, "Branches", {}),
     Generations |-> Get(row, "Generations", {}),
     Statuses |-> Get(row, "Statuses", {}),
     MatchScore |-> score,
     Intersection |-> intersection]

\* a variant that orders by the score alone
SortsBeforeByScore(a, b) == RatioGreater(a.MatchScore, b.MatchScore)

\* row a sorts before row b under by=["MatchScore", "Intersection"], both descending
SortsBefore(a, b) ==
    \/ RatioGreater(a.MatchScore, b.MatchScore)
    \/ a.MatchScore = b.MatchScore /\ a.Intersection > b.Intersection

\* rows with row put behind every row that does not sort after it
RECURSIVE Insert(_, _)
Insert(rows, row) ==
    IF rows = << >> THEN << row >>
    ELSE IF SortsBefore(row, rows[Len(rows)])
         THEN Append(Insert(SubSeq(rows, 1, Len(rows) - 1), row), rows[Len(rows)])
         ELSE Append(rows, row)

\* DataFrame.sort_values(by=[...], ascending=[False, False]): several keys sort by
\* pandas' lexsort, which keeps rows of equal keys in their order
RECURSIVE sort_values(_)
sort_values(rows) ==
    IF rows = << >> THEN << >>
    ELSE Insert(sort_values(SubSeq(rows, 1, Len(rows) - 1)), rows[Len(rows)])

\* a variant that keeps the units without a common member
RECURSIVE MatchRowsUnfiltered(_, _)
MatchRowsUnfiltered(units, selected) ==
    IF units = << >> THEN << >>
    ELSE LET row == units[Len(units)]
             target_set == row.MemberSet
             intersection == Cardinality(selected \cap target_set)
             rest == MatchRowsUnfiltered(SubSeq(units, 1, Len(units) - 1), selected)
         IN  Append(rest, MatchRow(row, jaccard(selected, target_set), intersection))

\* the rows find_matches collects, in the order of units_df
RECURSIVE MatchRows(_, _)
MatchRows(units, selected) ==
    IF units = << >> THEN << >>
    ELSE LET row == units[Len(units)]
             target_set == row.MemberSet
             intersection == Cardinality(selected \cap target_set)
             rest == MatchRows(SubSeq(units, 1, Len(units) - 1), selected)
         IN  IF intersection = 0
             THEN rest
             ELSE Append(rest, MatchRow(row, jaccard(selected, target_set), intersection))

find_matches(units, selected) == sort_values(MatchRows(units, selected))

\* the member ids a unit or a selection may hold
MatchMembers == { "m1", "m2", "m3", "m4" }

\* SpecMatch: find_matches and jaccard applied to drawn units and a drawn selection
InitMatch ==
    /\ tables = << >>
    /\ \E n \in 0..MaxMatchUnits :
          \E sets \in [1..n -> SUBSET MatchMembers] :
             units_df = [i \in 1..n |-> [UnitId |-> UnitIdPool[i], MemberSet |-> sets[i]]]
    /\ search_set \in SUBSET MatchMembers
    /\ InitApp

FindMatches ==
    /\ result' = Call("find_matches", NoError, find_matches(units_df, search_set))
    /\ UNCHANGED <<tables, units_df, search_set, last_etag, polls, cache, similarity_matrix,
                   similarity_member_ids, stored, member_fts, member_meta,
                   member_generations, succeeded, pc, local_bundle>>

\* jaccard called on the selection and a unit's member set, in both orders
Jaccard ==
    /\ \E i \in DOMAIN units_df :
          LET a == search_set
              b == units_df[i].MemberSet
          IN  result' = Call("jaccard", NoError,
                             [a |-> a, b |-> b, ab |-> jaccard(a, b), ba |-> jaccard(b, a)])
    /\ UNCHANGED <<tables, units_df, search_set, last_etag, polls, cache, similarity_matrix,
                   similarity_member_ids, stored, member_fts, member_meta,
                   member_generations, succeeded, pc, local_bundle>>

NextMatch == FindMatches \/ Jaccard

SpecMatch == InitMatch /\ [][NextMatch]_vars

-----------------------------------------------------------------------------
(* What the matching claims speak of *)

Matched == result.op = "find_matches"

\* the unit of a result row, found by its id
UnitOf(row) == CHOOSE i \in DOMAIN units_df : units_df[i].UnitId = row.UnitId

(* C8: every unit in the result of find_matches shares at least one member with the
   selection, and every unit that shares at least one member is in the result. *)
C8_ExactlyTheIntersectingUnits ==
    Matched =>
        /\ \A k \in DOMAIN result.body :
              /\ result.body[k].Intersection >= 1
              /\ result.body[k].Intersection
                    = Cardinality(search_set \cap units_df[UnitOf(result.body[k])].MemberSet)
        /\ { result.body[k].UnitId : k \in DOMAIN result.body }
              = { units_df[i].UnitId :
                    i \in { j \in DOMAIN units_df : search_set \cap units_df[j].MemberSet # {} } }
        /\ Len(result.body)
              = Cardinality({ j \in DOMAIN units_df : search_set \cap units_df[j].MemberSet # {} })

\* one unit shares a member with the selection and is returned, another shares none
C8_Witness ==
    /\ Matched
    /\ Len(result.body) = 1
    /\ \E i \in DOMAIN units_df :
          units_df[i].MemberSet # {} /\ search_set \cap units_df[i].MemberSet = {}

(* C9: the result of find_matches is non-increasing in (score, intersection): of two
   consecutive rows the first has the greater score, or the same score and an
   intersection that is not smaller. *)
C9_SortedByScoreThenIntersection ==
    Matched =>
        \A k \in 1..(Len(result.body) - 1) :
            LET a == result.body[k]
                b == result.body[k + 1]
            IN  \/ a.MatchScore[1] * b.MatchScore[2] > b.MatchScore[1] * a.MatchScore[2]
                \/ /\ a.MatchScore[1] * b.MatchScore[2] = b.MatchScore[1] * a.MatchScore[2]
                   /\ a.Intersection >= b.Intersection

\* the spec's example: u1 = {m1, m2}, u2 = {m1, m3}, selection {m1, m3}: u2 first
C9_Witness ==
    /\ Matched
    /\ units_df = << [UnitId |-> "u1", MemberSet |-> {"m1", "m2"}],
                     [UnitId |-> "u2", MemberSet |-> {"m1", "m3"}] >>
    /\ search_set = {"m1", "m3"}
    /\ [k \in DOMAIN result.body |->
            << result.body[k].UnitId, result.body[k].MatchScore, result.body[k].Intersection >>]
          = << << "u2", << 1, 1 >>, 2 >>, << "u1", << 1, 3 >>, 1 >> >>

(* C10: jaccard is symmetric, is 1.0 on a non-empty set and itself, 0.0 on two empty
   sets, |A \cap B| / |A \cup B| otherwise, and lies in [0, 1]. *)
C10_JaccardLaws ==
    result.op = "jaccard" =>
        LET a == result.body.a
            b == result.body.b
            s == result.body.ab
        IN  /\ s = result.body.ba
            /\ (a = b /\ a # {}) => s = << 1, 1 >>
            /\ (a = {} /\ b = {}) => s = << 0, 1 >>
            /\ (a # {} \/ b # {}) =>
                  s[1] * Cardinality(a \cup b) = Cardinality(a \cap b) * s[2]
            /\ s[2] > 0 /\ 0 <= s[1] /\ s[1] <= s[2]

\* a selection and a unit that overlap in part: the score is strictly between 0 and 1
C10_Witness ==
    /\ result.op = "jaccard"
    /\ result.body.a # result.body.b
    /\ Cardinality(result.body.a) # Cardinality(result.body.b)
    /\ result.body.ab = << 1, 3 >>
    /\ result.body.ba = << 1, 3 >>

-----------------------------------------------------------------------------
(* app.py: prepare_data and apply_filters *)

\* ValueError(f"missing_columns:{label}:{','.join(missing)}")
ValueError(label, missing) ==
    [type |-> "ValueError", prefix |-> "missing_columns", label |-> label,
     column |-> "", items |-> missing, arrow |-> "", target |-> ""]

_validate_required_columns(frame, required, label) ==
    LET missing == SelectSeq(required, LAMBDA c : c \notin frame.cols)
    IN  IF missing # << >> THEN ValueError(label, missing) ELSE NoError

\* str(cell): a missing cell is the float nan and prints as "nan"
str(cell) == IF cell = NaN THEN "nan" ELSE cell

\* the cells of the model that carry surrounding whitespace, and what is left of them
Padded == (" m1" :> "m1") @@ ("u1 " :> "u1") @@ (" " :> "")

\* s.strip()
strip(s) == IF s \in DOMAIN Padded THEN Padded[s] ELSE s

\* the aliases of the model that carry upper-case letters, lowered
Lowered == ("Al" :> "al") @@ ("Bobby" :> "bobby") @@ ("A-chan" :> "a-chan") @@ ("Sea" :> "sea")
           @@ ("One" :> "one")

\* s.lower()
lower(s) == IF s \in DOMAIN Lowered THEN Lowered[s] ELSE s

\* a Python float: nan, or the number v
Float(v) == [nan |-> FALSE, v |-> v]
nan == [nan |-> TRUE, v |-> 0]

\* a < b on floats: every comparison with nan is false
FloatLess(a, b) == ~a.nan /\ ~b.nan /\ a.v < b.v

\* the try/except around float(weight_val): a numeric cell parses, a missing cell is
\* already the float nan, anything else raises and gives 9999
float_or_sentinel(weight_val) ==
    IF weight_val = NaN THEN nan
    ELSE IF weight_val \in DOMAIN NumericCells THEN Float(NumericCells[weight_val])
    ELSE Float(9999)

Reverse(s) == [i \in DOMAIN s |-> s[Len(s) + 1 - i]]

\* the key comparison of sorted(..., key=lambda m: m["weight"])
WeightLess(a, b) == FloatLess(a.weight, b.weight)

\* the length of the run a list of two or more starts with: strictly descending when
\* desc, else non-descending
RunLength(xs, desc) ==
    LET Step(i) == IF desc THEN WeightLess(xs[i], xs[i - 1]) ELSE ~WeightLess(xs[i], xs[i - 1])
    IN  CHOOSE k \in 2..Len(xs) :
            /\ \A i \in 2..k : Step(i)
            /\ k = Len(xs) \/ ~Step(k + 1)

\* where binary insertion puts pivot in the sorted run: behind every entry it is not less than
RECURSIVE BinaryPosition(_, _, _, _)
BinaryPosition(run, pivot, l, r) ==
    IF l >= r THEN l
    ELSE LET p == l + ((r - l) \div 2)
         IN  IF WeightLess(pivot, run[p + 1])
             THEN BinaryPosition(run, pivot, l, p)
             ELSE BinaryPosition(run, pivot, p + 1, r)

InsertAt(run, pos, x) == SubSeq(run, 1, pos) \o << x >> \o SubSeq(run, pos + 1, Len(run))

RECURSIVE binarysort(_, _)
binarysort(run, rest) ==
    IF rest = << >> THEN run
    ELSE binarysort(InsertAt(run, BinaryPosition(run, Head(rest), 0, Len(run)), Head(rest)),
                    Tail(rest))

\* sorted(members, key=weight) on a list shorter than 64: the leading run is taken
\* (reversed when strictly descending) and the rest is put in by binary insertion
sorted_by_weight(xs) ==
    IF Len(xs) < 2 THEN xs
    ELSE LET desc == WeightLess(xs[2], xs[1])
             k == RunLength(xs, desc)
             run == IF desc THEN Reverse(SubSeq(xs, 1, k)) ELSE SubSeq(xs, 1, k)
         IN  binarysort(run, SubSeq(xs, k + 1, Len(xs)))

\* a cell of a row, as str(row.get(column, "")).strip()
Cell(row, column) == strip(str(Get(row, column, "")))

\* member_meta after the loops over members and member_generations: the last row of a
\* member id wins, and its generations are those of the generation rows that name it
MemberMeta(members_df, gen_df) ==
    LET mids == { Cell(members_df.rows[i], "member_id") : i \in DOMAIN members_df.rows } \ {""}
        last(mid) == CHOOSE i \in DOMAIN members_df.rows :
                        /\ Cell(members_df.rows[i], "member_id") = mid
                        /\ \A j \in DOMAIN members_df.rows :
                              Cell(members_df.rows[j], "member_id") = mid => j <= i
        display(row, mid) == IF Cell(row, "display_name") = "" THEN mid
                             ELSE Cell(row, "display_name")
    IN  [mid \in mids |->
            LET row == members_df.rows[last(mid)]
            IN  [member_id |-> mid,
                 display_name |-> display(row, mid),
                 alias |-> Cell(row, "alias"),
                 branch |-> Cell(row, "branch"),
                 status |-> Cell(row, "status"),
                 generations |->
                    { Cell(gen_df.rows[g], "generation") :
                        g \in { h \in DOMAIN gen_df.rows :
                                  Cell(gen_df.rows[h], "member_id") = mid } } \ {""}]]

\* member_alias_map: the lowered aliases of members, then of member_aliases; a later
\* writer of the same alias wins
MemberAliasMap(members_df, member_alias_df) ==
    LET from_members == SelectSeq(members_df.rows,
                                  LAMBDA row : Cell(row, "member_id") # "" /\ Cell(row, "alias") # "")
        from_aliases == SelectSeq(member_alias_df.rows, LAMBDA row : Cell(row, "alias") # "")
        writes == from_members \o from_aliases
        keys == { lower(Cell(writes[i], "alias")) : i \in DOMAIN writes }
    IN  [alias \in keys |->
            Cell(writes[CHOOSE i \in DOMAIN writes :
                            /\ lower(Cell(writes[i], "alias")) = alias
                            /\ \A j \in DOMAIN writes :
                                  lower(Cell(writes[j], "alias")) = alias => j <= i],
                 "member_id")]

\* unit_alias_map[uid]: the aliases of the unit and the notes that go with them
UnitAliases(unit_alias_df, uid) ==
    LET kept == SelectSeq(unit_alias_df.rows,
                          LAMBDA row : Cell(row, "unit_id") = uid /\ Cell(row, "alias") # "")
        noted == SelectSeq(kept, LAMBDA row : Cell(row, "alias_note") # "")
    IN  [aliases |-> [i \in DOMAIN kept |-> Cell(kept[i], "alias")],
         notes |-> [i \in DOMAIN noted |->
                      << Cell(noted[i], "alias"), ": ", Cell(noted[i], "alias_note") >>]]

\* unit_members_map[uid]: the memberships of the unit in row order; rows without a unit
\* id or with a member id that member_meta lacks are skipped
UnitMembersMap(unit_members_df, meta, uid) ==
    LET kept == SelectSeq(unit_members_df.rows,
                          LAMBDA row : /\ Cell(row, "unit_id") = uid
                                       /\ Cell(row, "member_id") # ""
                                       /\ Cell(row, "member_id") \in DOMAIN meta)
    IN  [i \in DOMAIN kept |->
            [member_id |-> Cell(kept[i], "member_id"),
             weight |-> float_or_sentinel(Get(kept[i], "weight", "9999"))]]

\* one entry of units_prepared
PreparedUnit(row, unit_members_df, unit_alias_df, meta) ==
    LET uid == Cell(row, "unit_id")
        members == sorted_by_weight(UnitMembersMap(unit_members_df, meta, uid))
        member_ids == [i \in DOMAIN members |-> members[i].member_id]
        member_set == Range(member_ids)
        aliases == UnitAliases(unit_alias_df, uid).aliases
        canonical_name == Cell(row, "canonical_name")
    IN  [UnitId |-> uid,
         UnitName |-> IF canonical_name # "" THEN canonical_name
                      ELSE IF aliases # << >> THEN aliases[1] ELSE uid,
         Aliases |-> aliases,
         AliasNotes |-> UnitAliases(unit_alias_df, uid).notes,
         Note |-> Cell(row, "note"),
         MemberSet |-> member_set,
         MemberDisplay |-> [i \in DOMAIN member_ids |-> meta[member_ids[i]].display_name],
         Branches |-> { meta[mid].branch : mid \in member_set } \ {""},
         Generations |-> UNION { meta[mid].generations : mid \in member_set },
         Statuses |-> { meta[mid].status : mid \in member_set } \ {""}]

\* prepare_data(tables); MemberDisplay is kept as the list the code joins with ", "
prepare_data(t) ==
    LET error == FirstError(
                    << _validate_required_columns(t["members"], MembersColumns, "members"),
                       _validate_required_columns(t["member_generations"],
                                                  MemberGenerationsColumns, "member_generations"),
                       _validate_required_columns(t["units"], UnitsColumns, "units"),
                       _validate_required_columns(t["unit_members"], UnitMembersColumns,
                                                  "unit_members") >>)
        members_df == fillna(t["members"])
        gen_df == fillna(t["member_generations"])
        unit_df == fillna(t["units"])
        unit_members_df == t["unit_members"]
        member_alias_df == IF "member_aliases" \in DOMAIN t THEN t["member_aliases"]
                           ELSE EmptyFrame(Range(MemberAliasesColumns))
        unit_alias_df == IF "units_aliases" \in DOMAIN t THEN t["units_aliases"]
                         ELSE EmptyFrame(Range(UnitsAliasesColumns))
        meta == MemberMeta(members_df, gen_df)
        unit_rows == SelectSeq(unit_df.rows, LAMBDA row : Cell(row, "unit_id") # "")
    IN  IF error # NoError
        THEN [error |-> error, units_df |-> << >>, member_meta |-> << >>,
              member_alias_map |-> << >>, branch_options |-> << >>,
              status_options |-> << >>, generation_options |-> << >>]
        ELSE [error |-> NoError,
              units_df |-> [i \in DOMAIN unit_rows |->
                              PreparedUnit(unit_rows[i], unit_members_df, unit_alias_df, meta)],
              member_meta |-> meta,
              member_alias_map |-> MemberAliasMap(members_df, member_alias_df),
              branch_options |-> sorted({ meta[mid].branch : mid \in DOMAIN meta } \ {""}),
              status_options |-> sorted({ meta[mid].status : mid \in DOMAIN meta } \ {""}),
              generation_options |->
                  sorted(UNION { meta[mid].generations : mid \in DOMAIN meta })]

\* the predicate _passes of apply_filters
_passes(row, branches, statuses, generations) ==
    /\ ~(branches # {} /\ Get(row, "Branches", {}) \cap branches = {})
    /\ ~(statuses # {} /\ Get(row, "Statuses", {}) \cap statuses = {})
    /\ ~(generations # {} /\ Get(row, "Generations", {}) \cap generations = {})

\* a variant that joins the three dimensions by OR
apply_filters_any(df, branches, statuses, generations) ==
    SelectSeq(df, LAMBDA row :
                    \/ branches # {} /\ Get(row, "Branches", {}) \cap branches # {}
                    \/ statuses # {} /\ Get(row, "Statuses", {}) \cap statuses # {}
                    \/ generations # {} /\ Get(row, "Generations", {}) \cap generations # {})

\* apply_filters(df, branches, statuses, generations): df[df.apply(_passes, axis=1)]
apply_filters(df, branches, statuses, generations) ==
    IF df = << >> THEN df
    ELSE SelectSeq(df, LAMBDA row : _passes(row, branches, statuses, generations))

-----------------------------------------------------------------------------
(* SpecPrepare: prepare_data on a drawn table set, then find_matches on its units *)
(* and apply_filters on the matches, as the page runs them                        *)

\* the weight cells a drawn membership may hold: numeric, non-numeric, empty, missing
WeightCells == { "1", "2", "x", "", NaN }

\* the member id cells a drawn membership may hold: " m1" is m1 behind a blank
EdgeMemberCells == { "m1", "m2", " m1" }

\* the memberships drawn on top of the two of the first unit: none, or one more
MoreEdges ==
    { << >> } \cup
    { << [unit_id |-> u, member_id |-> m, weight |-> w] >> :
        u \in { "u1", "u2" }, m \in EdgeMemberCells, w \in WeightCells }

\* the base table set with the first member in generation "1" and the others in "2",
\* the first two members in unit u1 with the weight cells w1 and w2, and the rows more
PrepareTables(w1, w2, more) ==
    [BaseTables EXCEPT
        !["member_generations"] =
            Frame(@.cols, [i \in DOMAIN @.rows |->
                             [@.rows[i] EXCEPT !["generation"] = IF i = 1 THEN "1" ELSE "2"]]),
        !["unit_members"] =
            Frame(@.cols,
                  << [unit_id |-> "u1", member_id |-> "m1", weight |-> w1],
                     [unit_id |-> "u1", member_id |-> "m2", weight |-> w2] >> \o more)]

\* the selections of members the page may search for
SearchSets == { {"m1"}, {"m1", "m2"} }

\* the facet selections of the sidebar
BranchFilters == { {}, {"A"}, {"B"}, {"A", "B"} }
StatusFilters == { {}, {"retired"} }
GenerationFilters == { {}, {"1"}, {"2"} }

InitPrepare ==
    /\ \E w1 \in WeightCells, w2 \in WeightCells, more \in MoreEdges :
          tables = PrepareTables(w1, w2, more)
    /\ units_df = << >>
    /\ search_set \in SearchSets
    /\ InitApp

PrepareData ==
    /\ result.op \in {"none", "_validate"}
    /\ LET prepared == prepare_data(tables)
       IN  /\ result' = Call("prepare_data", prepared.error, prepared)
           /\ units_df' = prepared.units_df
    /\ UNCHANGED <<tables, search_set, last_etag, polls, cache, similarity_matrix,
                   similarity_member_ids, stored, member_fts, member_meta,
                   member_generations, succeeded, pc, local_bundle>>

ApplyFilters ==
    /\ result.op = "find_matches"
    /\ \E branches \in BranchFilters, statuses \in StatusFilters,
          generations \in GenerationFilters :
          result' = Call("apply_filters", NoError,
                         [df |-> result.body, branches |-> branches, statuses |-> statuses,
                          generations |-> generations,
                          out |-> apply_filters(result.body, branches, statuses, generations)])
    /\ UNCHANGED <<tables, units_df, search_set, last_etag, polls, cache, similarity_matrix,
                   similarity_member_ids, stored, member_fts, member_meta,
                   member_generations, succeeded, pc, local_bundle>>

NextPrepare == Validate \/ PrepareData \/ FindMatches \/ ApplyFilters

SpecPrepare == InitPrepare /\ [][NextPrepare]_vars

-----------------------------------------------------------------------------
(* What the filtering claim speaks of *)

Filtered == result.op = "apply_filters"

\* the prepared unit a matched row stands for
PreparedUnitOf(row) == units_df[CHOOSE i \in DOMAIN units_df : units_df[i].UnitId = row.UnitId]

\* the unit passes the selection: every dimension with a non-empty selection meets the
\* unit's facet set of that dimension
PassesSelection(unit, branches, statuses, generations) ==
    /\ branches = {} \/ unit.Branches \cap branches # {}
    /\ statuses = {} \/ unit.Statuses \cap statuses # {}
    /\ generations = {} \/ unit.Generations \cap generations # {}

(* C11: apply_filters keeps a matched unit exactly when every facet dimension with a
   non-empty selection meets the unit's derived facet set of that dimension; an empty
   selection constrains nothing; the survivors keep the order they had. *)
C11_FacetFilterIsAndOfOrs ==
    Filtered =>
        LET df == result.body.df
            out == result.body.out
            keep == { k \in DOMAIN df :
                        PassesSelection(PreparedUnitOf(df[k]), result.body.branches,
                                        result.body.statuses, result.body.generations) }
        IN  /\ Len(out) = Cardinality(keep)
            /\ \A k \in DOMAIN df : (k \in keep) <=> (\E j \in DOMAIN out : out[j] = df[k])
            /\ \A i \in DOMAIN out, j \in DOMAIN out :
                  i < j => \E a \in DOMAIN df, b \in DOMAIN df :
                              a < b /\ df[a] = out[i] /\ df[b] = out[j]
            /\ (result.body.branches = {} /\ result.body.statuses = {}
                  /\ result.body.generations = {}) => out = df

\* two units match; the selection names a branch and a status; one unit meets both and
\* is kept, the other meets the branch alone and is dropped
C11_Witness ==
    /\ Filtered
    /\ Len(result.body.df) = 2
    /\ result.body.branches # {} /\ result.body.statuses # {}
    /\ Len(result.body.out) = 1
    /\ \E k \in DOMAIN result.body.df :
          /\ result.body.df[k] # result.body.out[1]
          /\ result.body.df[k].Branches \cap result.body.branches # {}
          /\ result.body.df[k].Statuses \cap result.body.statuses = {}

\* the rows of the drawn unit_members whose weight cell is missing or not a number
MalformedRows ==
    { i \in DOMAIN tables["unit_members"].rows :
        tables["unit_members"].rows[i]["weight"] \notin DOMAIN NumericCells }

\* the id cells of the drawn unit_members are ids of the members and units tables as
\* they stand
PlainIds ==
    \A i \in DOMAIN tables["unit_members"].rows :
        /\ tables["unit_members"].rows[i]["member_id"] \in Range(MemberIdPool)
        /\ tables["unit_members"].rows[i]["unit_id"] \in Range(UnitIdPool)

\* the memberships the normalizer keeps for the unit, with their weights, in row order
NormalizedMemberships(uid) ==
    UnitMembersMap(tables["unit_members"], result.body.member_meta, uid)

\* the rows of the drawn unit_members that belong to the unit, by their position
RowsOfUnit(uid) ==
    SelectSeq([i \in DOMAIN tables["unit_members"].rows |-> i],
              LAMBDA i : tables["unit_members"].rows[i]["unit_id"] = uid)

(* C20: a missing or non-numeric weight in unit_members is no error in the loader and
   none in the normalizer: the call succeeds, the membership is kept (in the bundle's
   unit_members; in the unit's member list and MemberSet), and its weight is exactly
   the sentinel 9999. *)
C20_MalformedWeightBecomesSentinel ==
    /\ (result.op = "_validate" /\ PlainIds) =>
          /\ result.error = NoError
          /\ Len(result.body.unit_members.rows) = Len(tables["unit_members"].rows)
          /\ \A i \in MalformedRows :
                /\ result.body.unit_members.rows[i]["member_id"]
                      = tables["unit_members"].rows[i]["member_id"]
                /\ result.body.unit_members.rows[i]["weight"] = SentinelWeight
    /\ (result.op = "prepare_data" /\ PlainIds) =>
          /\ result.error = NoError
          /\ \A k \in DOMAIN units_df :
                LET uid == units_df[k].UnitId
                    rows == RowsOfUnit(uid)
                    kept == NormalizedMemberships(uid)
                IN  /\ Len(kept) = Len(rows)
                    /\ \A n \in DOMAIN rows :
                          rows[n] \in MalformedRows =>
                             /\ kept[n].member_id
                                   = tables["unit_members"].rows[rows[n]]["member_id"]
                             /\ kept[n].member_id \in units_df[k].MemberSet
                             /\ kept[n].weight = Float(SentinelWeight)

\* prepare_data has returned normally
Prepared == result.op = "prepare_data" /\ result.error = NoError

\* a <= b on the weights of two memberships; no weight is at most or at least nan
WeightAtMost(a, b) == ~a.weight.nan /\ ~b.weight.nan /\ a.weight.v <= b.weight.v

\* ordered is kept in ascending order of weight, memberships of equal weight in the
\* order kept has them
StablyAscending(ordered, kept) ==
    /\ \A i, j \in DOMAIN ordered : i < j => WeightAtMost(ordered[i], ordered[j])
    /\ Len(ordered) = Len(kept)
    /\ \E p \in [DOMAIN ordered -> DOMAIN kept] :
          /\ \A i, j \in DOMAIN ordered : i # j => p[i] # p[j]
          /\ \A i \in DOMAIN ordered : ordered[i] = kept[p[i]]
          /\ \A i, j \in DOMAIN ordered :
                (i < j /\ ordered[i].weight = ordered[j].weight) => p[i] < p[j]

\* the member ids of the drawn members table, as the normalizer reads them
MembersTableIds ==
    { Cell(tables["members"].rows[i], "member_id") : i \in DOMAIN tables["members"].rows }

(* C25: the normalizer orders each unit's membership ascending by weight with a stable
   sort (memberships of equal weight keep their unit_members table order), and the unit's
   member_set is exactly the set of member ids of that ordered list, containing only ids
   that exist in the members table. *)
C25_MembershipStablyAscendingByWeight ==
    Prepared =>
        \A k \in DOMAIN units_df :
            LET kept == NormalizedMemberships(units_df[k].UnitId)
                ordered == sorted_by_weight(kept)
            IN  /\ StablyAscending(ordered, kept)
                /\ units_df[k].MemberDisplay =
                      [i \in DOMAIN ordered |->
                          result.body.member_meta[ordered[i].member_id].display_name]
                /\ units_df[k].MemberSet = { ordered[i].member_id : i \in DOMAIN ordered }
                /\ units_df[k].MemberSet \subseteq MembersTableIds

-----------------------------------------------------------------------------
(* SpecFeatures: _validate on a table set with drawn weight cells, then *)
(* build_member_unit_matrix on the unit_members of the bundle           *)

\* the weight cells drawn: zero, positive, non-numeric, missing
FeatureWeightCells == { "0", "1", "2", "x", NaN }

\* the base table set with three memberships of drawn weight cells
FeatureTables(w1, w2, w3) ==
    [BaseTables EXCEPT !["unit_members"] =
        Frame(@.cols,
              << [unit_id |-> "u1", member_id |-> "m1", weight |-> w1],
                 [unit_id |-> "u1", member_id |-> "m2", weight |-> w2],
                 [unit_id |-> "u2", member_id |-> "m1", weight |-> w3] >>)]

InitFeatures ==
    /\ \E w1 \in FeatureWeightCells, w2 \in FeatureWeightCells, w3 \in FeatureWeightCells :
          tables = FeatureTables(w1, w2, w3)
    /\ units_df = << >>
    /\ search_set = {}
    /\ InitApp

BuildMatrix ==
    /\ result.op = "_validate" /\ result.error = NoError
    /\ LET built == build_member_unit_matrix(result.body.unit_members)
       IN  result' = CallWith("build_member_unit_matrix", result.body.unit_members,
                              built.error, built)
    /\ UNCHANGED <<tables, units_df, search_set, last_etag, polls, cache, similarity_matrix,
                   similarity_member_ids, stored, member_fts, member_meta,
                   member_generations, succeeded, pc, local_bundle>>

NextFeatures == Validate \/ BuildMatrix

SpecFeatures == InitFeatures /\ [][NextFeatures]_vars

-----------------------------------------------------------------------------
(* What the claim on the matrix entries speaks of *)

MatrixBuilt == result.op = "build_member_unit_matrix"

\* the position of x in a sequence without repetition
IndexOf(seq, x) == CHOOSE i \in DOMAIN seq : seq[i] = x

\* the denominator of the entry the matrix holds, before normalization, for the edge
EntryDenominator(edge) ==
    result.body.before[IndexOf(result.body.member_ids, edge["member_id"])]
                      [IndexOf(result.body.unit_ids, edge["unit_id"])]

(* C19: for every membership edge of normalized weight w >= 0, 0 and the sentinel 9999
   included, the matrix entry before row normalization is 1 / (1 + w); so of two edges
   the one of strictly lower weight has the strictly higher entry, and an edge of
   weight 9999 has the entry 1/10000. *)
C19_EntryIsInverseOfOnePlusWeight ==
    MatrixBuilt =>
        /\ result.error = NoError
        /\ \A i \in DOMAIN result.args.rows :
              result.args.rows[i]["weight"] >= 0
                 => EntryDenominator(result.args.rows[i]) = 1 + result.args.rows[i]["weight"]
        /\ \A i \in DOMAIN result.args.rows, j \in DOMAIN result.args.rows :
              (/\ 0 <= result.args.rows[i]["weight"]
               /\ result.args.rows[i]["weight"] < result.args.rows[j]["weight"])
                 => EntryDenominator(result.args.rows[i]) < EntryDenominator(result.args.rows[j])

-----------------------------------------------------------------------------
(* Spec: the application create_app builds, its calls taken one at a time *)

\* the base table set with one more unit_members row: edge[1] = 0 for none, else
\* member edge[1] in unit edge[2] with weight cell edge[3]; the base rows put every
\* member in the first unit, the drawn row puts one in the last
EdgeTables(edge) ==
    [BaseTables EXCEPT !["unit_members"] =
        Frame(@.cols,
              IF edge[1] = 0 THEN @.rows
              ELSE Append(@.rows, [unit_id |-> UnitIdPool[edge[2]],
                                   member_id |-> MemberIdPool[edge[1]],
                                   weight |-> edge[3]]))]

ExtraEdges ==
    { << 0, 0, "1" >> } \cup
    { << i, NumUnits, w >> : i \in 1..NumMembers, w \in {"0", "2", "-1"} }

\* the base table set cut down to its first k members; k = 0 leaves the members
\* and empties unit_members
MembersTables(k) ==
    [BaseTables EXCEPT
        !["members"] = Frame(@.cols, IF k = 0 THEN @.rows ELSE Prefix(@.rows, k)),
        !["member_generations"] = Frame(@.cols, IF k = 0 THEN @.rows ELSE Prefix(@.rows, k)),
        !["unit_members"] = Frame(@.cols, Prefix(@.rows, k))]

\* the shapes an optional table is drawn in
MemberAliasesShapes == {"absent", "empty", "rows", "no_alias_column", "missing_alias"}
UnitsAliasesShapes == {"absent", "empty", "rows"}

MemberAliasesFrame(shape) ==
    CASE shape = "empty" -> EmptyFrame(Range(MemberAliasesColumns))
      [] shape = "rows" -> BaseTables["member_aliases"]
      [] shape = "no_alias_column" ->
            Frame({"member_id"}, << [c \in {"member_id"} |-> "m1"] >>)
      [] shape = "missing_alias" ->
            Frame(Range(MemberAliasesColumns),
                  << [member_id |-> "m1", alias |-> "A-chan"],
                     [member_id |-> MemberIdPool[NumMembers], alias |-> NaN] >>)

UnitsAliasesFrame(shape) ==
    CASE shape = "empty" -> EmptyFrame(Range(UnitsAliasesColumns))
      [] shape = "rows" -> BaseTables["units_aliases"]

\* the base table set with its optional tables in the given shapes
OptionalTables(member_aliases_shape, units_aliases_shape) ==
    [name \in TableNames \
              ((IF member_aliases_shape = "absent" THEN {"member_aliases"} ELSE {}) \cup
               (IF units_aliases_shape = "absent" THEN {"units_aliases"} ELSE {})) |->
        CASE name = "member_aliases" -> MemberAliasesFrame(member_aliases_shape)
          [] name = "units_aliases" -> UnitsAliasesFrame(units_aliases_shape)
          [] OTHER -> BaseTables[name]]

\* build_tables() of the tests: three members, two units, four memberships
FixtureTables ==
    [name \in TableNames |->
        CASE name = "members" -> Frame(Range(MembersColumns), Prefix(MemberPool, 3))
          [] name = "member_generations" ->
                Frame(Range(MemberGenerationsColumns),
                      << [member_id |-> "m1", generation |-> "1", is_primary |-> "TRUE"],
                         [member_id |-> "m2", generation |-> "1", is_primary |-> "TRUE"],
                         [member_id |-> "m3", generation |-> "2", is_primary |-> "TRUE"] >>)
          [] name = "units" -> Frame(Range(UnitsColumns), Prefix(UnitPool, 2))
          [] name = "unit_members" ->
                Frame(Range(UnitMembersColumns),
                      << [unit_id |-> "u1", member_id |-> "m1", weight |-> "1"],
                         [unit_id |-> "u1", member_id |-> "m2", weight |-> "2"],
                         [unit_id |-> "u2", member_id |-> "m1", weight |-> "3"],
                         [unit_id |-> "u2", member_id |-> "m3", weight |-> "1"] >>)
          [] name = "member_aliases" ->
                Frame(Range(MemberAliasesColumns),
                      << [member_id |-> "m1", alias |-> "A-chan"],
                         [member_id |-> "m3", alias |-> "Sea"] >>)
          [] name = "units_aliases" -> EmptyFrame(Range(UnitsAliasesColumns))]

\* the table sets a reload is called with
ReloadTables ==
    { EdgeTables(edge) : edge \in ExtraEdges } \cup
    { MembersTables(k) : k \in 0..NumMembers } \cup
    { OptionalTables(ma, ua) : ma \in MemberAliasesShapes, ua \in UnitsAliasesShapes } \cup
    { MakeTables({"units"}, {}, {}, << >>),
      MakeTables({}, { << "members", "status" >> }, {}, << >>),
      MakeTables({}, {}, { << "unit_members", "member_id" >> }, << NumMembers + 1 >>) }

\* the arguments the read handlers are called with
UnitIdArgs == { UnitIdPool[i] : i \in 1..(NumUnits + 1) }
MemberIdArgs == { MemberIdPool[i] : i \in 1..(NumMembers + 1) }
TopArgs == {1, 2}
QueryArgs ==
    { MemberSearchQuery(b, st, g) : b \in { {}, {"A"} }, st \in { {}, {"active"} },
                                    g \in { {}, {"1"} } }

ReadOps == {"get_unit", "similarity", "search_members"}

Init ==
    /\ tables = << >>
    /\ units_df = << >>
    /\ search_set = {}
    /\ InitApp

\* what a call leaves of the state app in the variables
Becomes(app) ==
    /\ cache' = app.cache
    /\ similarity_matrix' = app.similarity_matrix
    /\ similarity_member_ids' = app.similarity_member_ids
    /\ stored' = app.stored
    /\ member_fts' = app.index.member_fts
    /\ member_meta' = app.index.member_meta
    /\ member_generations' = app.index.member_generations

\* loader.load_from_frames(t) for a table set t of the family
LoadFrom(family) ==
    \E t \in family :
        LET loaded == load_from_frames(Current, t)
        IN  /\ Becomes(loaded.app)
            /\ result' = Call("load_from_frames", loaded.error, loaded.bundle)
            /\ succeeded' = (succeeded \/ loaded.error = NoError)
            /\ tables' = t
            /\ UNCHANGED <<units_df, search_set, last_etag, polls, pc, local_bundle>>

LoadFromFrames == LoadFrom(ReloadTables)

Read(op, args, answer) ==
    /\ result' = CallWith(op, args, answer.error, answer.body)
    /\ UNCHANGED <<tables, units_df, search_set, last_etag, polls, cache, similarity_matrix,
                   similarity_member_ids, stored, member_fts, member_meta,
                   member_generations, succeeded, pc, local_bundle>>

GetUnit ==
    \E unit_id \in UnitIdArgs :
        Read("get_unit", << >>, get_unit(Current, unit_id))

Similarity ==
    \E member_id \in MemberIdArgs, top \in TopArgs :
        Read("similarity", << >>, similarity(Current, member_id, top))

SearchMembers ==
    \E query \in QueryArgs :
        Read("search_members", << >>, search_members(Current, query))

Next == LoadFromFrames \/ GetUnit \/ Similarity \/ SearchMembers

Spec == Init /\ [][Next]_vars

-----------------------------------------------------------------------------
(* What the reload claims speak of *)

Loaded == result.op = "load_from_frames"

\* the state the calls after this step will find
CurrentNext ==
    AppState(cache', similarity_matrix', similarity_member_ids', stored',
             Index(member_fts', member_meta', member_generations'))

\* what the readers are served from: the bundle, the matrix with its member
\* ordering, and the search index
Serving(app) ==
    << app.cache, app.similarity_matrix, app.similarity_member_ids, app.index >>

\* the table set t with its absent optional tables supplied without rows
SuppliedEmpty(t) ==
    [name \in TableNames |->
        IF name \in DOMAIN t THEN t[name] ELSE EmptyFrame(Range(ColumnsOf(name)))]

\* C1, as the specification states it: a load_from_frames call that raises leaves
\* the current bundle, the similarity matrix with its member ordering and the
\* search index exactly as they were before the call.
C1_FailedLoadLeavesStateUntouched ==
    [][(result'.op = "load_from_frames" /\ result'.error # NoError)
          => Serving(CurrentNext) = Serving(Current)]_vars

\* C3, as the specification states it: as long as no load_from_frames call has
\* succeeded, a read fails with 503 data_not_loaded and returns no data.
C3_ReadsFailWhileEmpty ==
    (~succeeded /\ result.op \in ReadOps)
        => (result.error = data_not_loaded /\ result.body = << >>)

\* C7: a load of a table set with an optional table absent has exactly the outcome
\* of the load, from the same state, of that table set with the absent tables
\* supplied empty: the same success or failure, the same bundle returned, and the
\* same state left behind (bundle, matrix, member ordering, stored tables, search
\* index), the state every later read is answered from; so it succeeds whenever
\* the load of the table set with the tables supplied empty does.
C7_AbsentOptionalTablesAsEmpty ==
    [][(result'.op = "load_from_frames" /\ Range(OPTIONAL_SHEETS) \ DOMAIN tables' # {})
          => LET supplied == load_from_frames(Current, SuppliedEmpty(tables'))
             IN  /\ result'.error = supplied.error
                 /\ result'.body = supplied.bundle
                 /\ CurrentNext = supplied.app]_vars

\* C7 happens: a table set without both optional tables has been loaded, and the
\* load succeeded through the reindex
C7_Witness ==
    /\ Loaded /\ result.error = NoError
    /\ DOMAIN tables = Range(REQUIRED_SHEETS)
    /\ cache # None /\ cache[1].member_aliases.rows = << >>
    /\ member_meta # << >>

\* the distinct ids a frame holds in a column
IdsIn(frame, column) == Range(Column(frame, column))

\* the last call was a load_from_frames that returned normally
LoadSucceeded == Loaded /\ result.error = NoError

(* C23: after every successful load_from_frames, first load or reload, the derived
   artifacts match the current bundle: the similarity member ordering is exactly the
   lexicographically sorted distinct member ids of the bundle's unit_members, and the
   search index holds exactly the members of the bundle's members table, nothing left
   over from a superseded bundle. *)
C23_DerivedArtifactsMatchBundle ==
    LoadSucceeded =>
        /\ cache = result.body /\ cache # None
        /\ similarity_member_ids # Unset
        /\ StrictlySorted(similarity_member_ids[1])
        /\ Range(similarity_member_ids[1]) = IdsIn(cache[1].unit_members, "member_id")
        /\ [i \in DOMAIN member_fts |-> member_fts[i].member_id]
              = Column(cache[1].members, "member_id")
        /\ { member_meta[i].member_id : i \in DOMAIN member_meta }
              = IdsIn(cache[1].members, "member_id")
        /\ DOMAIN member_generations = IdsIn(cache[1].members, "member_id")

\* C23 happens: a load has succeeded on a table set with one member and one
\* membership, fewer than other table sets of the family carry
C23_Witness ==
    /\ LoadSucceeded
    /\ Len(cache[1].members.rows) = 1
    /\ Len(cache[1].unit_members.rows) = 1
    /\ Len(member_meta) = 1
    /\ similarity_member_ids = Some(<< "m1" >>)

(* C27: once one load_from_frames has succeeded the loader never returns to Empty: after
   any further sequence of successful or failing reloads get_cached_bundle is non-empty
   and no read fails with the not-loaded condition. *)
C27_ReadyNeverReturnsToEmpty ==
    succeeded =>
        /\ cache # None
        /\ result.op \in ReadOps => result.error # data_not_loaded

\* C27 happens: after a successful load a reload has been refused by the validation,
\* and a read that followed has been answered
C27_Witness ==
    /\ succeeded
    /\ _validate(tables).error # NoError
    /\ result.op \in ReadOps /\ result.error = NoError

-----------------------------------------------------------------------------
(* SpecServe: the application with the arguments of its reads on record, loaded *)
(* from a small family of accepted table sets                                   *)

\* the base table set with only the first k memberships: the members behind them
\* are in the members table and in no unit; k = 0 leaves no membership at all
WithMemberships(k) ==
    [BaseTables EXCEPT !["unit_members"] = Frame(@.cols, Prefix(@.rows, k))]

\* the base table set with the weight cell of its first membership replaced
WeightTables(w) ==
    [BaseTables EXCEPT !["unit_members"] =
        Frame(@.cols, [@.rows EXCEPT ![1] = [@ EXCEPT !["weight"] = w]])]

\* the weight cells drawn for the first membership: negative, zero, positive
ServeWeights == { "-2", "0", "2" }

\* the fixture with one more alias, shared by its first two members
SharedAliasTables ==
    [FixtureTables EXCEPT !["member_aliases"] =
        Frame(@.cols, @.rows \o << [member_id |-> "m1", alias |-> "Star"],
                                   [member_id |-> "m2", alias |-> "Star"] >>)]

\* the fixture with a member_aliases table that lacks the alias column: its load raises
\* in the reindex hook
BrokenAliasesTables ==
    [FixtureTables EXCEPT !["member_aliases"] = MemberAliasesFrame("no_alias_column")]

\* the fixture with memberships that give its second and third member the same row:
\* both are in the first unit only, at the same weight
TiedTables ==
    [FixtureTables EXCEPT !["unit_members"] =
        Frame(@.cols, << [unit_id |-> "u1", member_id |-> "m1", weight |-> "1"],
                         [unit_id |-> "u1", member_id |-> "m2", weight |-> "2"],
                         [unit_id |-> "u1", member_id |-> "m3", weight |-> "2"],
                         [unit_id |-> "u2", member_id |-> "m1", weight |-> "1"] >>)]

ServeTables ==
    { FixtureTables, SharedAliasTables, BrokenAliasesTables, TiedTables }
    \cup { WithMemberships(k) : k \in 0..NumMembers }
    \cup { WeightTables(w) : w \in ServeWeights }

ServeLoad == LoadFrom(ServeTables)

ServeSimilarity ==
    \E member_id \in MemberIdArgs \cup {"m3"}, top \in TopArgs :
        Read("similarity", [member_id |-> member_id, top |-> top],
             similarity(Current, member_id, top))

\* the queries of the search read: a keyword or none, facet selections, a page
ServeKeywords == { None, Some("Sea"), Some("Star"), Some("A-chan") }
ServeLimits == { 1, 2 }
ServeOffsets == { 0, 1 }
ServeQueries ==
    { MemberSearchQueryOf(keyword, branch, status, generation, limit, offset) :
        keyword \in ServeKeywords, branch \in { {}, {"A"} }, status \in { {}, {"retired"} },
        generation \in { {}, {"1"} }, limit \in ServeLimits, offset \in ServeOffsets }

ServeSearchMembers ==
    \E query \in ServeQueries :
        Read("search_members", query, search_members(Current, query))

ServeGetUnit ==
    \E unit_id \in UnitIdArgs :
        Read("get_unit", [unit_id |-> unit_id], get_unit(Current, unit_id))

NextServe == ServeLoad \/ ServeSimilarity \/ ServeSearchMembers \/ ServeGetUnit

SpecServe == Init /\ [][NextServe]_vars

-----------------------------------------------------------------------------
(* What the claims on the similarity read speak of *)

\* a similarity read has been answered
SimilarityAnswered == result.op = "similarity"

\* the items of the answer; an answer that is an error has none
SimilarItems == IF result.body = << >> THEN << >> ELSE result.body[1].items

\* the member ids that are rows of the current matrix
MatrixRows ==
    IF similarity_matrix = Unset \/ similarity_member_ids = Unset THEN {}
    ELSE { similarity_member_ids[1][i] :
             i \in DOMAIN similarity_member_ids[1] \cap DOMAIN similarity_matrix[1] }

(* C12, as stated: similarMembers(m, top=k) never contains m and has at most k entries,
   and has exactly k entries whenever at least k members other than m are rows of the
   matrix. *)
C12_ExactlyTopWhenEnoughOthers ==
    SimilarityAnswered =>
        /\ \A i \in DOMAIN SimilarItems : SimilarItems[i].member_id # result.args.member_id
        /\ Len(SimilarItems) <= result.args.top
        /\ Cardinality(MatrixRows \ {result.args.member_id}) >= result.args.top
              => Len(SimilarItems) = result.args.top

(* C12, amended: similarMembers(m, top=k) never contains m and has at most k entries;
   when m is a row of the matrix and at least k other members are rows, it has exactly
   k entries. *)
C12_ExactlyTopWhenRowAndEnoughOthers ==
    SimilarityAnswered =>
        /\ \A i \in DOMAIN SimilarItems : SimilarItems[i].member_id # result.args.member_id
        /\ Len(SimilarItems) <= result.args.top
        /\ (/\ result.args.member_id \in MatrixRows
            /\ Cardinality(MatrixRows \ {result.args.member_id}) >= result.args.top)
              => Len(SimilarItems) = result.args.top

\* the test's case: three members are rows, top = 2 for m1 returns m2 and m3
C12_Witness ==
    /\ SimilarityAnswered /\ result.error = NoError
    /\ Cardinality(MatrixRows) = 3
    /\ result.args = [member_id |-> "m1", top |-> 2]
    /\ { SimilarItems[i].member_id : i \in DOMAIN SimilarItems } = {"m2", "m3"}

\* the score of matrix row mid against the row of the queried member
ScoreOf(mid) ==
    LET ids == similarity_member_ids[1]
        row(x) == similarity_matrix[1][CHOOSE i \in DOMAIN ids : ids[i] = x]
    IN  Score(row(mid), row(result.args.member_id))

ScoreEqual(a, b) == ~ScoreGreater(a, b) /\ ~ScoreGreater(b, a)

\* the rows of the matrix the answer left out, the queried member aside
LeftOut ==
    MatrixRows \ ({result.args.member_id}
                    \cup { SimilarItems[i].member_id : i \in DOMAIN SimilarItems })

(* C24: similarMembers results are sorted by score descending and the sort is stable for
   ties: two members with equal scores appear in their original row order, the
   lexicographic order of member id, and truncation to top keeps the earliest of the
   tied entries. *)
C24_DescendingAndStableForTies ==
    (SimilarityAnswered /\ result.error = NoError) =>
        /\ \A i \in DOMAIN SimilarItems :
              SimilarItems[i].score = ScoreOf(SimilarItems[i].member_id)
        /\ \A i, j \in DOMAIN SimilarItems :
              i < j =>
                 /\ ~ScoreGreater(SimilarItems[j].score, SimilarItems[i].score)
                 /\ ScoreEqual(SimilarItems[i].score, SimilarItems[j].score)
                       => LexRank(SimilarItems[i].member_id) < LexRank(SimilarItems[j].member_id)
        /\ \A i \in DOMAIN SimilarItems, y \in LeftOut :
              /\ ~ScoreGreater(ScoreOf(y), SimilarItems[i].score)
              /\ ScoreEqual(ScoreOf(y), SimilarItems[i].score)
                    => LexRank(SimilarItems[i].member_id) < LexRank(y)

\* C24 happens: top = 1 has cut a tie, the member left out scoring what the one
\* returned scores
C24_Witness ==
    /\ SimilarityAnswered /\ result.error = NoError
    /\ result.args.top = 1 /\ Len(SimilarItems) = 1
    /\ \E y \in LeftOut : ScoreEqual(ScoreOf(y), SimilarItems[1].score)
    /\ SimilarItems[1].score.sign = 1

\* the member ids of the members table of the current bundle
BundleMembers ==
    IF cache = None THEN {}
    ELSE { cache[1].members.rows[i]["member_id"] : i \in DOMAIN cache[1].members.rows }

(* C14: with a bundle loaded and a matrix built, similarMembers for a member id that is
   no row of the matrix (a member without membership included), or on an empty matrix,
   answers without error and with no items. *)
C14_AbsentMemberGivesEmptyResult ==
    (/\ SimilarityAnswered
     /\ cache # None /\ similarity_matrix # Unset
     /\ result.args.member_id \notin MatrixRows \/ similarity_matrix[1] = << >>)
        => (result.error = NoError /\ result.body = << [items |-> << >>] >>)

\* a member of the members table without membership is asked for while the matrix has
\* rows: the answer is empty and no error
C14_Witness ==
    /\ SimilarityAnswered
    /\ result.args.member_id \in BundleMembers
    /\ MatrixRows # {} /\ result.args.member_id \notin MatrixRows
    /\ result.error = NoError /\ result.body = << [items |-> << >>] >>

(* C13: for every table set the loader accepts, every score similarMembers returns lies
   within [0, 1], every entry of the feature matrix is non-negative, and every row of
   the matrix is a zero vector or has unit norm. *)
C13_ScoresWithinUnitInterval ==
    /\ SimilarityAnswered =>
          \A i \in DOMAIN SimilarItems :
              /\ SimilarItems[i].score.sign >= 0
              /\ SimilarItems[i].score.num <= SimilarItems[i].score.den
    /\ similarity_matrix # Unset =>
          \A i \in DOMAIN similarity_matrix[1] :
              \A j \in DOMAIN similarity_matrix[1][i] : similarity_matrix[1][i][j] >= 0

-----------------------------------------------------------------------------
(* What the claims on the member search speak of *)

\* a search read has been answered without error
SearchAnswered == result.op = "search_members" /\ result.error = NoError

FoundItems == result.body[1].items

\* the members passing the facet filters of the query, before any page is cut: ranked by
\* the keyword when one is given (and is a word), else in the order of the index
PassingMembers(query) ==
    _apply_filters(Current.index,
                   IF HasKeyword(query)
                   THEN fts_ranked(member_fts, fts_query(query.keyword[1]).term)
                   ELSE [i \in DOMAIN member_meta |-> member_meta[i]["member_id"]],
                   query)

(* C15: searchMembers returns the slice [offset, offset + limit) of the list of members
   passing the facet filters, ranked when a keyword is given and unranked when not, so
   never more than limit entries. *)
C15_PageOfPassingMembers ==
    SearchAnswered =>
        /\ FoundItems = LimitOffset(PassingMembers(result.args), result.args.limit,
                                    result.args.offset)
        /\ Len(FoundItems) <= result.args.limit

\* the member ids of the items found
FoundIds == { FoundItems[i]["member_id"] : i \in DOMAIN FoundItems }

\* the generations the current bundle gives a member
BundleGenerations(mid) ==
    { cache[1].member_generations.rows[i]["generation"] :
        i \in { j \in DOMAIN cache[1].member_generations.rows :
                  cache[1].member_generations.rows[j]["member_id"] = mid } }

(* C16: every member a search returns has its branch in the selected branches when some
   are selected, its status in the selected statuses when some are selected, and a
   generation among the selected generations when some are selected; a search without
   keyword and without facet selection has every member of the current bundle among
   its candidates, and so returns them all. *)
C16_FacetsRestrictAndNoKeywordKeepsAll ==
    SearchAnswered =>
        /\ \A i \in DOMAIN FoundItems :
              /\ result.args.branch # {} => FoundItems[i]["branch"] \in result.args.branch
              /\ result.args.status # {} => FoundItems[i]["status"] \in result.args.status
              /\ result.args.generation # {} =>
                    BundleGenerations(FoundItems[i]["member_id"]) \cap result.args.generation # {}
        /\ (/\ ~HasKeyword(result.args)
            /\ result.args.branch = {} /\ result.args.status = {}
            /\ result.args.generation = {})
              => BundleMembers \subseteq FoundIds

\* the members of the current bundle that carry the text as display name, as primary
\* alias or as an auxiliary alias of member_aliases
Carriers(text) ==
    { cache[1].members.rows[i]["member_id"] :
        i \in { j \in DOMAIN cache[1].members.rows :
                  \/ cache[1].members.rows[j]["display_name"] = text
                  \/ cache[1].members.rows[j]["alias"] = text } }
    \cup
    { cache[1].member_aliases.rows[i]["member_id"] :
        i \in { j \in DOMAIN cache[1].member_aliases.rows :
                  /\ "alias" \in cache[1].member_aliases.cols
                  /\ cache[1].member_aliases.rows[j]["alias"] = text } }

(* C17: a keyword search for a text equal to a member's display name, primary alias or
   any of its auxiliary aliases returns that member: with no facet selected, from
   offset 0 and with a limit that leaves room for every member carrying the text, the
   search answers without error and every such member is among the items. *)
C17_AliasKeywordFindsMember ==
    (/\ result.op = "search_members"
     /\ cache # None
     /\ HasKeyword(result.args)
     /\ result.args.branch = {} /\ result.args.status = {} /\ result.args.generation = {}
     /\ result.args.offset = 0
     /\ Carriers(result.args.keyword[1]) # {}
     /\ Cardinality(Carriers(result.args.keyword[1])) <= result.args.limit)
        => (/\ result.error = NoError
            /\ Carriers(result.args.keyword[1]) \subseteq FoundIds)

-----------------------------------------------------------------------------
(* What the claim on the unit read speaks of *)

\* a unit read has been answered from a bundle
UnitAnswered == result.op = "get_unit" /\ cache # None

\* the memberships of the unit in the current bundle, as (member_id, weight) entries in
\* the order of unit_members
MembershipsOf(unit_id) ==
    LET rows == SelectSeq(cache[1].unit_members.rows, LAMBDA row : row["unit_id"] = unit_id)
    IN  [i \in DOMAIN rows |-> [member_id |-> rows[i]["member_id"], weight |-> rows[i]["weight"]]]

\* how often x occurs in the sequence
Occurrences(seq, x) == Cardinality({ i \in DOMAIN seq : seq[i] = x })

(* C18: getUnit of a unit id of the current bundle's units table answers with the unit
   record and a members list that holds exactly the unit_members rows of that unit, in
   non-decreasing order of weight; getUnit of any other id fails with 404
   unit_not_found. *)
C18_UnitMembersByWeight ==
    UnitAnswered =>
        IF \E i \in DOMAIN cache[1].units.rows :
              cache[1].units.rows[i]["unit_id"] = result.args.unit_id
        THEN LET listed == result.body[1]["members"]
                 rows == MembershipsOf(result.args.unit_id)
             IN  /\ result.error = NoError
                 /\ result.body[1]["unit_id"] = result.args.unit_id
                 /\ Len(listed) = Len(rows)
                 /\ \A x \in Range(rows) \cup Range(listed) :
                       Occurrences(listed, x) = Occurrences(rows, x)
                 /\ \A k \in 1..(Len(listed) - 1) : listed[k].weight <= listed[k + 1].weight
        ELSE result.error = HTTPException("404", "unit_not_found") /\ result.body = << >>

\* the unit's rows are stored heavier first and listed lighter first
C18_Witness ==
    /\ UnitAnswered /\ result.error = NoError
    /\ MembershipsOf(result.args.unit_id)
          = << [member_id |-> "m1", weight |-> 3], [member_id |-> "m3", weight |-> 1] >>
    /\ result.body[1]["members"]
          = << [member_id |-> "m3", weight |-> 1], [member_id |-> "m1", weight |-> 3] >>

-----------------------------------------------------------------------------
(* SpecConc: the same application, its calls made from two threads.  A thread   *)
(* runs load_from_frames statement by statement; the other thread's calls fall  *)
(* between its statements.                                                      *)

\* the thread that ran sqlite3.connect: the connection refuses every other thread
ConnOwner == "main"

ProgrammingError ==
    [type |-> "ProgrammingError", prefix |-> "SQLite objects created in a thread",
     label |-> "", column |-> "", items |-> << >>, arrow |-> "", target |-> ""]

\* the table sets the threads reload: every one of them loads
ConcTables ==
    { BaseTables, EdgeTables(<< 1, NumUnits, "2" >>), MembersTables(1) }

InitConc ==
    /\ tables = << >>
    /\ units_df = << >>
    /\ search_set = {}
    /\ InitApp

\* load_from_frames raises error in thread th
Raise(th, error) ==
    /\ result' = Call("load_from_frames", error, None)
    /\ pc' = [pc EXCEPT ![th] = "idle"]
    /\ local_bundle' = [local_bundle EXCEPT ![th] = None]

Goto(th, at) ==
    /\ pc' = [pc EXCEPT ![th] = at]
    /\ UNCHANGED <<result, local_bundle>>

\* bundle = self._validate(tables)
LoadValidate(th) ==
    /\ pc[th] = "idle"
    /\ \E t \in ConcTables :
          LET validated == _validate(t)
          IN  /\ tables' = t
              /\ IF validated.error # NoError
                 THEN Raise(th, validated.error)
                 ELSE /\ pc' = [pc EXCEPT ![th] = "persist"]
                      /\ local_bundle' = [local_bundle EXCEPT ![th] = Some(validated.bundle)]
                      /\ UNCHANGED result
    /\ UNCHANGED <<units_df, search_set, last_etag, polls, cache, similarity_matrix, similarity_member_ids,
                   stored, member_fts, member_meta, member_generations, succeeded>>

\* self._persist(bundle)
LoadPersist(th) ==
    /\ pc[th] = "persist"
    /\ IF th # ConnOwner
       THEN Raise(th, ProgrammingError) /\ UNCHANGED stored
       ELSE Goto(th, "publish") /\ stored' = local_bundle[th]
    /\ UNCHANGED <<tables, units_df, search_set, last_etag, polls, cache, similarity_matrix,
                   similarity_member_ids, member_fts, member_meta, member_generations,
                   succeeded>>

\* self.cache = bundle
LoadPublish(th) ==
    /\ pc[th] = "publish"
    /\ cache' = local_bundle[th]
    /\ Goto(th, "matrix")
    /\ UNCHANGED <<tables, units_df, search_set, last_etag, polls, similarity_matrix, similarity_member_ids,
                   stored, member_fts, member_meta, member_generations, succeeded>>

\* _recompute_similarity: the matrix is built and self.similarity_matrix assigned
LoadMatrix(th) ==
    /\ pc[th] = "matrix"
    /\ LET built == build_member_unit_matrix(local_bundle[th][1].unit_members)
       IN  IF built.error # NoError
           THEN Raise(th, built.error) /\ UNCHANGED similarity_matrix
           ELSE Goto(th, "member_ids") /\ similarity_matrix' = Some(built.mat)
    /\ UNCHANGED <<tables, units_df, search_set, last_etag, polls, cache, similarity_member_ids, stored,
                   member_fts, member_meta, member_generations, succeeded>>

\* _recompute_similarity: self.similarity_member_ids = member_ids
LoadMemberIds(th) ==
    /\ pc[th] = "member_ids"
    /\ similarity_member_ids' =
          Some(build_member_unit_matrix(local_bundle[th][1].unit_members).member_ids)
    /\ Goto(th, "clear")
    /\ UNCHANGED <<tables, units_df, search_set, last_etag, polls, cache, similarity_matrix, stored,
                   member_fts, member_meta, member_generations, succeeded>>

\* the hook, reindex: DELETE FROM member_fts and the two clear() calls
ReindexClear(th) ==
    /\ pc[th] = "clear"
    /\ member_fts' = << >>
    /\ member_meta' = << >>
    /\ member_generations' = << >>
    /\ Goto(th, "index")
    /\ UNCHANGED <<tables, units_df, search_set, last_etag, polls, cache, similarity_matrix,
                   similarity_member_ids, stored, succeeded>>

\* the hook, reindex: the two groupby maps, the loop over the members and the
\* commit; load_from_frames then returns the bundle
ReindexFill(th) ==
    /\ pc[th] = "index"
    /\ LET bundle == local_bundle[th][1]
           indexed ==
              IF "alias" \notin bundle.member_aliases.cols
              THEN [error |-> KeyError("alias"),
                    index |-> Index(member_fts, member_meta, member_generations)]
              ELSE IndexRows(Index(member_fts, member_meta, member_generations),
                             bundle.members, bundle.member_aliases,
                             bundle.member_generations, 1)
       IN  /\ member_fts' = indexed.index.member_fts
           /\ member_meta' = indexed.index.member_meta
           /\ member_generations' = indexed.index.member_generations
           /\ IF indexed.error # NoError
              THEN Raise(th, indexed.error) /\ UNCHANGED succeeded
              ELSE /\ result' = Call("load_from_frames", NoError, local_bundle[th])
                   /\ pc' = [pc EXCEPT ![th] = "idle"]
                   /\ local_bundle' = [local_bundle EXCEPT ![th] = None]
                   /\ succeeded' = TRUE
    /\ UNCHANGED <<tables, units_df, search_set, last_etag, polls, cache, similarity_matrix,
                   similarity_member_ids, stored>>

\* a read handler run by thread th between two statements of the other thread
GetUnitBy(th) == pc[th] = "idle" /\ GetUnit

SimilarityBy(th) == pc[th] = "idle" /\ Similarity

\* service.search touches the connection: it raises in a thread that does not own it
SearchMembersBy(th) ==
    /\ pc[th] = "idle"
    /\ IF cache # None /\ th # ConnOwner
       THEN Read("search_members", << >>, [error |-> ProgrammingError, body |-> << >>])
       ELSE SearchMembers

NextConc ==
    \E th \in Threads :
        \/ LoadValidate(th)
        \/ LoadPersist(th)
        \/ LoadPublish(th)
        \/ LoadMatrix(th)
        \/ LoadMemberIds(th)
        \/ ReindexClear(th)
        \/ ReindexFill(th)
        \/ GetUnitBy(th)
        \/ SimilarityBy(th)
        \/ SearchMembersBy(th)

SpecConc == InitConc /\ [][NextConc]_vars

-----------------------------------------------------------------------------
(* What the publication claim speaks of *)

\* the application before any load
EmptyApp == AppState(None, Unset, Unset, << >>, EmptyIndex)

\* the outcome of loading table set t and nothing else
PublishedFrom(t) == load_from_frames(EmptyApp, t)

\* C2, as the specification states it: at every point of a running
\* load_from_frames, what a read is served from (the bundle, the similarity
\* matrix with its member ordering, the search index) belongs to one version:
\* all of it is the empty application's, or all of it is what the load of one
\* table set publishes.
C2_PublicationIsAtomic ==
    \/ Serving(Current) = Serving(EmptyApp)
    \/ \E t \in ConcTables :
          /\ PublishedFrom(t).error = NoError
          /\ Serving(Current) = Serving(PublishedFrom(t).app)

\* the threads that are inside load_from_frames
InFlight == { th \in Threads : pc[th] # "idle" }

\* no load is running and some load has come to its end
ReloadsFinished == InFlight = {} /\ result.op = "load_from_frames"

(* C22: reload attempts are serialized: when two load_from_frames calls are triggered
   concurrently, at most one is in flight at a time, so after both finish the current
   bundle, the similarity matrix and the search index all derive from one table set. *)
C22_AtMostOneReloadInFlight ==
    /\ Cardinality(InFlight) <= 1
    /\ ReloadsFinished =>
          \/ Serving(Current) = Serving(EmptyApp)
          \/ \E t \in ConcTables :
                /\ PublishedFrom(t).error = NoError
                /\ Serving(Current) = Serving(PublishedFrom(t).app)

-----------------------------------------------------------------------------
(* backend/ingest/sheets_client.py: SheetsClient *)

\* MissingSheetError(f"{prefix}:{','.join(names)}")
MissingSheetErrorOf(prefix, names) ==
    [type |-> "MissingSheetError", prefix |-> prefix, label |-> "", column |-> "",
     items |-> names, arrow |-> "", target |-> ""]

\* the status lines of the model, as the message of an HTTPError prints them
StatusText == (403 :> "403") @@ (404 :> "404") @@ (500 :> "500")

\* requests.HTTPError raised by resp.raise_for_status()
HTTPError(status_code) ==
    [type |-> "HTTPError", prefix |-> StatusText[status_code], label |-> "", column |-> "",
     items |-> << >>, arrow |-> "", target |-> ""]

\* a response of the session: its status code and its text, the text as the
\* sequence of its lines and a line as the sequence of its comma-separated fields
Response(status_code, text) == [status_code |-> status_code, text |-> text]

\* text.strip() is empty: the text has no line, or lines without a character
blank(text) == \A i \in DOMAIN text : text[i] = << >>

\* pd.read_csv(io.StringIO(text)): blank lines are skipped, the first line left is the
\* header and every further line a row
read_csv(text) ==
    LET lines == SelectSeq(text, LAMBDA line : line # << >>)
        header == lines[1]
    IN  Frame(Range(header),
              [i \in 1..(Len(lines) - 1) |->
                  [c \in Range(header) |->
                      lines[i + 1][CHOOSE k \in DOMAIN header : header[k] = c]]])

\* SheetsClient.fetch_sheet, the session answering the GET for sheet_name with
\* session[sheet_name]
fetch_sheet(session, sheet_name) ==
    LET resp == session[sheet_name]
    IN  IF resp.status_code = 404
        THEN [error |-> MissingSheetErrorOf("missing_sheet", << sheet_name >>),
              result |-> None]
        ELSE IF resp.status_code >= 400
        THEN [error |-> HTTPError(resp.status_code), result |-> None]
        ELSE IF blank(resp.text)
        THEN [error |-> MissingSheetErrorOf("empty_sheet", << sheet_name >>),
              result |-> None]
        ELSE [error |-> NoError,
              result |-> Some([name |-> sheet_name, frame |-> read_csv(resp.text)])]

\* one loop of fetch_required_sheets from names[i] on: a MissingSheetError is
\* caught and the name kept in missing, any other exception leaves the loop
RECURSIVE FetchLoop(_, _, _, _, _)
FetchLoop(session, names, i, fetched, missing) ==
    IF i > Len(names) THEN [error |-> NoError, tables |-> fetched, missing |-> missing]
    ELSE LET got == fetch_sheet(session, names[i])
         IN  IF got.error.type = "MissingSheetError"
             THEN FetchLoop(session, names, i + 1, fetched, missing \cup {names[i]})
             ELSE IF got.error # NoError
             THEN [error |-> got.error, tables |-> fetched, missing |-> missing]
             ELSE FetchLoop(session, names, i + 1,
                            (got.result[1].name :> got.result[1].frame) @@ fetched, missing)

\* fetch_required_sheets naming only the first sheet it found missing
fetch_required_sheets_first_missing(session, required, optional) ==
    LET req == FetchLoop(session, required, 1, << >>, {})
        opt == FetchLoop(session, IF optional = None THEN << >> ELSE optional[1], 1,
                         req.tables, {})
    IN  IF req.error # NoError THEN [error |-> req.error, tables |-> None]
        ELSE IF req.missing # {}
        THEN [error |-> MissingSheetErrorOf("missing_required",
                                            << sorted(req.missing)[1] >>),
              tables |-> None]
        ELSE IF opt.error # NoError THEN [error |-> opt.error, tables |-> None]
        ELSE [error |-> NoError, tables |-> Some(opt.tables)]

\* SheetsClient.fetch_required_sheets; optional is None or Some(names)
fetch_required_sheets(session, required, optional) ==
    LET req == FetchLoop(session, required, 1, << >>, {})
        opt == FetchLoop(session, IF optional = None THEN << >> ELSE optional[1], 1,
                         req.tables, {})
    IN  IF req.error # NoError THEN [error |-> req.error, tables |-> None]
        ELSE IF req.missing # {}
        THEN [error |-> MissingSheetErrorOf("missing_required", sorted(req.missing)),
              tables |-> None]
        ELSE IF opt.error # NoError THEN [error |-> opt.error, tables |-> None]
        ELSE [error |-> NoError, tables |-> Some(opt.tables)]

-----------------------------------------------------------------------------
(* SpecFetch: fetch_required_sheets as DataLoader.load calls it, on a session *)
(* whose answer to each sheet is drawn                                        *)

\* the text of a sheet with a header line and one row
SheetText == << << "member_id", "weight" >>, << "m1", "1" >> >>

\* what the session may answer for one sheet: the sheet, no text at all, an
\* empty line, not found, a server error
Responses ==
    { Response(200, SheetText), Response(200, << >>), Response(200, << << >> >>),
      Response(404, << >>), Response(500, << >>) }

\* the optional argument: left out, or OPTIONAL_SHEETS as DataLoader.load passes it
OptionalArgs == { None, Some(OPTIONAL_SHEETS) }

FetchRequiredSheets ==
    /\ result = NoCall
    /\ \E session \in [TableNames -> Responses], optional \in OptionalArgs :
          LET fetched == fetch_required_sheets(session, REQUIRED_SHEETS, optional)
          IN  result' = CallWith("fetch_required_sheets",
                                 [session |-> session, required |-> REQUIRED_SHEETS,
                                  optional |-> optional],
                                 fetched.error, fetched.tables)
    /\ UNCHANGED <<tables, units_df, search_set, last_etag, polls, cache, similarity_matrix,
                   similarity_member_ids, stored, member_fts, member_meta,
                   member_generations, succeeded, pc, local_bundle>>

NextFetch == FetchRequiredSheets

SpecFetch == Init /\ [][NextFetch]_vars

-----------------------------------------------------------------------------
(* What the claim on the fetch stage speaks of *)

Fetched == result.op = "fetch_required_sheets"

\* the sheet is missing (404) or empty, as the session answers for it
SheetMissing(session, name) ==
    \/ session[name].status_code = 404
    \/ session[name].status_code < 400 /\ blank(session[name].text)

\* the required sheets the session has missing or empty
MissingRequired(session) == { name \in Range(REQUIRED_SHEETS) : SheetMissing(session, name) }

\* the sheets of names whose fetch fails with a status other than 404
Failing(session, names) ==
    { name \in names : session[name].status_code >= 400 /\ session[name].status_code # 404 }

\* the optional sheets the call was asked for
OptionalAsked == IF result.args.optional = None THEN {} ELSE Range(result.args.optional[1])

\* the call failed with MissingSheetError naming every missing required sheet, and
\* returned no table set
FailsNamingMissing ==
    /\ result.error.type = "MissingSheetError"
    /\ result.error.type \notin {"SchemaValidationError", "IdConsistencyError"}
    /\ result.error.items = sorted(MissingRequired(result.args.session))
    /\ result.body = None

\* the call returned the required sheets and the optional sheets that are there,
\* the missing or empty optional sheets skipped
ReturnsSkippingOptional ==
    /\ result.error = NoError
    /\ result.body # None
    /\ DOMAIN result.body[1] =
          Range(REQUIRED_SHEETS) \cup
          { name \in OptionalAsked : ~SheetMissing(result.args.session, name) }

(* C21, as stated: if any required sheet is missing (404) or empty,
   fetch_required_sheets fails with MissingSheetError, a type distinct from
   SchemaValidationError and IdConsistencyError, naming all missing required sheets, and
   returns no table set; a missing or empty optional sheet is skipped without failure. *)
C21_MissingRequiredFailsOptionalSkipped ==
    Fetched =>
        /\ MissingRequired(result.args.session) # {} => FailsNamingMissing
        /\ (/\ MissingRequired(result.args.session) = {}
            /\ Failing(result.args.session, TableNames) = {}) => ReturnsSkippingOptional

(* C21, amended: if any required sheet is missing (404) or empty and the fetch of no
   required sheet fails with another error status, fetch_required_sheets fails with
   MissingSheetError, a type distinct from SchemaValidationError and IdConsistencyError,
   naming all missing required sheets, and returns no table set; a missing or empty
   optional sheet is skipped without failure. *)
C21_MissingRequiredFailsUnlessOtherFailure ==
    Fetched =>
        /\ (/\ MissingRequired(result.args.session) # {}
            /\ Failing(result.args.session, Range(REQUIRED_SHEETS)) = {}) => FailsNamingMissing
        /\ (/\ MissingRequired(result.args.session) = {}
            /\ Failing(result.args.session, TableNames) = {}) => ReturnsSkippingOptional

\* C21 happens: two required sheets are missing, one not found and one empty, and
\* the call has failed
C21_Witness ==
    /\ Fetched
    /\ Cardinality(MissingRequired(result.args.session)) = 2
    /\ \E name \in MissingRequired(result.args.session) :
          result.args.session[name].status_code = 404
    /\ \E name \in MissingRequired(result.args.session) :
          result.args.session[name].status_code = 200
    /\ Failing(result.args.session, Range(REQUIRED_SHEETS)) = {}
    /\ result.error # NoError

-----------------------------------------------------------------------------
(* backend/ingest/poller.py: SpreadsheetPoller *)

PollResult(changed, etag) == [changed |-> changed, etag |-> etag]

\* the response to the HEAD request: its status code and resp.headers.get("ETag"),
\* None when the response carries no ETag header
HeadResponse(status_code, etag) == [status_code |-> status_code, etag |-> etag]

\* self.last_etag = etag or self.last_etag: an empty ETag is falsy, as None is
EtagOr(etag, last) == IF etag = None \/ etag = Some("") THEN last ELSE etag

\* SpreadsheetPoller.check with self.last_etag = last: [error, result, last_etag]
check(last, resp) ==
    IF resp.status_code >= 400
    THEN [error |-> HTTPError(resp.status_code), result |-> None, last_etag |-> last]
    ELSE [error |-> NoError,
          result |-> Some(PollResult(resp.etag # None /\ resp.etag # last, resp.etag)),
          last_etag |-> EtagOr(resp.etag, last)]

\* SpreadsheetPoller.start_polling: [error, result, last_etag, on_change_calls], the
\* last the number of times it has called on_change
start_polling(last, resp) ==
    LET checked == check(last, resp)
    IN  [error |-> checked.error, result |-> checked.result,
         last_etag |-> checked.last_etag,
         on_change_calls |->
            IF checked.error = NoError /\ checked.result[1].changed THEN 1 ELSE 0]

-----------------------------------------------------------------------------
(* SpecPoll: a poller checked and polled again and again, the response to each *)
(* HEAD request drawn                                                          *)

\* the ETag headers of the responses: none, an empty one, three versions
Etags == { None, Some(""), Some("v1"), Some("v2"), Some("v3") }

HeadResponses ==
    { HeadResponse(200, etag) : etag \in Etags } \cup { HeadResponse(500, None) }

PollerCheck ==
    /\ polls < MaxChecks
    /\ \E resp \in HeadResponses :
          LET checked == check(last_etag, resp)
          IN  /\ result' = CallWith("check", [resp |-> resp], checked.error,
                                    IF checked.result = None THEN None
                                    ELSE Some([changed |-> checked.result[1].changed,
                                               etag |-> checked.result[1].etag,
                                               on_change_calls |-> 0]))
              /\ last_etag' = checked.last_etag
    /\ polls' = polls + 1
    /\ UNCHANGED <<tables, units_df, search_set, cache, similarity_matrix,
                   similarity_member_ids, stored, member_fts, member_meta,
                   member_generations, succeeded, pc, local_bundle>>

StartPolling ==
    /\ polls < MaxChecks
    /\ \E resp \in HeadResponses :
          LET polled == start_polling(last_etag, resp)
          IN  /\ result' = CallWith("start_polling", [resp |-> resp], polled.error,
                                    IF polled.result = None THEN None
                                    ELSE Some([changed |-> polled.result[1].changed,
                                               etag |-> polled.result[1].etag,
                                               on_change_calls |-> polled.on_change_calls]))
              /\ last_etag' = polled.last_etag
    /\ polls' = polls + 1
    /\ UNCHANGED <<tables, units_df, search_set, cache, similarity_matrix,
                   similarity_member_ids, stored, member_fts, member_meta,
                   member_generations, succeeded, pc, local_bundle>>

NextPoll == PollerCheck \/ StartPolling

SpecPoll == Init /\ [][NextPoll]_vars

-----------------------------------------------------------------------------
(* What the claim on the poller speaks of *)

PollOps == {"check", "start_polling"}

\* the last call was a check, alone or inside start_polling, that returned
Polled == result.op \in PollOps /\ result.error = NoError

\* this step is a check, alone or inside start_polling, that returns
PollReturns == polls' = polls + 1 /\ result'.op \in PollOps /\ result'.error = NoError

(* C26: check() reports changed = true exactly when the response carries an ETag that
   differs from the last ETag remembered; a response without an ETag reports changed =
   false and leaves the remembered ETag unchanged; of two consecutive checks that see
   the same ETag only the first reports changed; start_polling invokes on_change at most
   once per call and only when changed. *)
C26_ChangedExactlyOnNewEtag ==
    [][PollReturns =>
          LET etag == result'.args.resp.etag
              changed == result'.body[1].changed
          IN  /\ changed <=> (etag # None /\ etag # last_etag)
              /\ etag = None => (~changed /\ last_etag' = last_etag)
              /\ (Polled /\ etag # None /\ result.args.resp.etag = etag) => ~changed
              /\ result'.body[1].on_change_calls <= 1
              /\ result'.body[1].on_change_calls = 1
                    => (changed /\ result'.op = "start_polling")]_vars

====
